---- MODULE Spec2Model ----
(***************************************************************************)
(* Verification model of the settlemaker generation engine.                *)
(*                                                                         *)
(*  Spec       the retrying six-phase pipeline Model.generate(), run by    *)
(*             two Model instances built from the same GenerationParams    *)
(*  SpecGraph  Graph/Node link construction and Graph.aStar                *)
(*  SpecWall   CurtainWall.buildGates (both variants of the source)        *)
(*  SpecAlleys createAlleys / bisect / Polygon.cut on fixed-point polygons *)
(*  SpecCut    Polygon.cut                                                 *)
(*  SpecRandom SeededRandom                                                *)
(*  SpecWards  Model.createWards                                           *)
(*  SpecTopo   Topology, Model.buildStreets and Model.tidyUpRoads          *)
(*  SpecJunc   Model.optimizeJunctions                                     *)
(*  SpecRelax  the relaxation rounds of Model.buildPatches over Voronoi    *)
(*  SpecCirc   Model.findCircumference                                     *)
(*  SpecFort   Model.buildWalls with CurtainWall and Castle                *)
(***************************************************************************)
EXTENDS Integers, Sequences, FiniteSets, TLC

VARIABLES
    model,     \* Inst -> the fields of one Model object (model.ts 26-50)
    links,     \* Node.links of every node: <<neighbour, price>> pairs in
               \* insertion order (graph.ts 5)
    gpc,       \* "build" while the graph is linked, "searched" after aStar
    query,     \* the arguments of the aStar call
    path,      \* its result: None for null, Some(<<goal, ..., start>>)
    cw,        \* one CurtainWall under construction and what its
               \* constructor was given
    alleys,    \* one createAlleys run: pending calls, buildings so far
    cutc,      \* one Polygon.cut call: receiver, arguments, result
    rnd,       \* one SeededRandom and the values it has returned
    wards,     \* one Model.createWards run
    topo,      \* one Topology and its buildPath calls
    junc,      \* one Model.optimizeJunctions run
    circ,      \* one Model.findCircumference call
    fort,      \* one Model.buildWalls run
    relax      \* the relaxation rounds of Model.buildPatches

genVars == <<model>>
graphVars == <<links, gpc, query, path>>
wallVars == <<cw>>
alleyVars == <<alleys>>
cutVars == <<cutc>>
rndVars == <<rnd>>
wardVars == <<wards>>
topoVars == <<topo>>
juncVars == <<junc>>
circVars == <<circ>>
fortVars == <<fort>>
relaxVars == <<relax>>
vars == <<genVars, graphVars, wallVars, alleyVars, cutVars, rndVars,
          wardVars, topoVars, juncVars, circVars, fortVars, relaxVars>>

\* what the actions of one specification leave alone
otherThanGen == <<graphVars, wallVars, alleyVars, cutVars, rndVars,
                  wardVars, topoVars, juncVars,
    circVars, fortVars, relaxVars>>
otherThanGraph == <<genVars, wallVars, alleyVars, cutVars, rndVars,
                    wardVars, topoVars, juncVars,
    circVars, fortVars, relaxVars>>
otherThanWall == <<genVars, graphVars, alleyVars, cutVars, rndVars,
                   wardVars, topoVars, juncVars,
    circVars, fortVars, relaxVars>>
otherThanAlleys == <<genVars, graphVars, wallVars, cutVars, rndVars,
                     wardVars, topoVars, juncVars,
    circVars, fortVars, relaxVars>>
otherThanCut == <<genVars, graphVars, wallVars, alleyVars, rndVars,
                  wardVars, topoVars, juncVars,
    circVars, fortVars, relaxVars>>
otherThanRnd == <<genVars, graphVars, wallVars, alleyVars, cutVars,
                  wardVars, topoVars, juncVars,
    circVars, fortVars, relaxVars>>
otherThanWards == <<genVars, graphVars, wallVars, alleyVars, cutVars,
                    rndVars, topoVars, juncVars,
    circVars, fortVars, relaxVars>>
otherThanTopo == <<genVars, graphVars, wallVars, alleyVars, cutVars,
                   rndVars, wardVars, juncVars,
    circVars, fortVars, relaxVars>>
otherThanCirc == <<genVars, graphVars, wallVars, alleyVars, cutVars,
                   rndVars, wardVars, topoVars, juncVars, fortVars, relaxVars>>
otherThanFort == <<genVars, graphVars, wallVars, alleyVars, cutVars,
                   rndVars, wardVars, topoVars, juncVars, circVars, relaxVars>>
otherThanRelax == <<genVars, graphVars, wallVars, alleyVars, cutVars,
                    rndVars, wardVars, topoVars, juncVars, circVars, fortVars>>
otherThanJunc == <<genVars, graphVars, wallVars, alleyVars, cutVars,
                   rndVars, wardVars, topoVars,
    circVars, fortVars, relaxVars>>

(***************************************************************************)
(* Generic helpers                                                         *)
(***************************************************************************)
None == <<>>
Some(x) == <<x>>

Range(s) == {s[i] : i \in 1..Len(s)}

\* the parts of the state a specification does not use stay idle
GraphIdle ==
    /\ links = <<>>
    /\ gpc = "idle"
    /\ query = <<>>
    /\ path = None

WallIdle == cw = <<>>

AlleysIdle == alleys = <<>>

CutIdle == cutc = <<>>

RndIdle == rnd = <<>>

WardsIdle == wards = <<>>

TopoIdle == topo = <<>>

JuncIdle == junc = <<>>

CircIdle == circ = <<>>

FortIdle == fort = <<>>

RelaxIdle == relax = <<>>

HelpersIdle == CircIdle /\ FortIdle /\ RelaxIdle

(***************************************************************************)
(* SeededRandom (src/geom/segment.ts 31-76)                                *)
(***************************************************************************)
G == 48271
N == 2147483647

\* (a * G) % N for 0 <= a < N.  The source multiplies in double precision,
\* which is exact (the product stays below 2^53); here the same value is
\* computed inside the 32-bit range: with N = G * q + r,
\* a * G mod N = G * (a mod q) - r * (a div q), plus N when negative.
MulModGN(a) ==
    LET q == N \div G
        r == N % G
        t == G * (a % q) - r * (a \div q)
    IN IF t < 0 THEN t + N ELSE t

\* the clock values Date.now() % N may deliver when no seed is given
ClockSeeds == {11, 12}
NoSeed == -1

\* constructor: the set of generator states it can produce for a seed
SeededRandomNewFromClock(seed) == {IF s <= 0 THEN 1 ELSE s : s \in ClockSeeds}
SeededRandomNew(seed) ==
    {IF s <= 0 THEN 1 ELSE s :
        s \in IF seed # NoSeed THEN {seed} ELSE ClockSeeds}

\* next(): seed = (seed * G) % N
RngNext(s) == MulModGN(s)

\* the generator state after k draws
RECURSIVE RngAfter(_, _)
RngAfter(s, k) == IF k = 0 THEN s ELSE RngAfter(RngNext(s), k - 1)

(***************************************************************************)
(* Model.generate() and the six phases (src/src/generator/model.ts)        *)
(***************************************************************************)
MAX_ATTEMPTS == 20

Inst == {1, 2}

MaxNPatches == 2
MaxOuter == 1
MaxEntrances == 3
MaxDraws == 1
MaxBuildings == 1
MaxArteries == 1

Seeds == {0, 42}
NPatchesSet == {MaxNPatches}

\* GenerationParams (src/unnamed/part_007)
ParamsSet ==
    [nPatches : NPatchesSet, plazaNeeded : BOOLEAN, citadelNeeded : BOOLEAN,
     wallsNeeded : BOOLEAN, seed : Seeds]

FatalError == "Failed to generate after 20 attempts"
BadWalledArea == "Bad walled area shape!"
BadCitadel == "Bad citadel shape!"
NoStreet == "Unable to build a street!"
StackOverflow == "RangeError"

\* field initialisers and constructor of Model
NewModel(p, r) ==
    [params |-> p, rng |-> r,
     topology |-> None, patches |-> <<>>, inner |-> <<>>,
     citadel |-> None, plaza |-> None, border |-> None, wall |-> None,
     gates |-> <<>>, arteries |-> <<>>, streets |-> <<>>, roads |-> <<>>,
     ward |-> {}, geometry |-> 0,
     \* position in generate(), loop counter, bookkeeping of the run
     pc |-> "generate", attempt |-> 0, builds |-> 0, phase |-> 0,
     caught |-> "", error |-> ""]

\* for (let attempt = 0; attempt < MAX_ATTEMPTS; attempt++)
LoopTestInclusive(attempt) == attempt <= MAX_ATTEMPTS
LoopTest(attempt) == attempt < MAX_ATTEMPTS

\* the catch block of generate()
ResetStateKeepGates(m) ==
    [m EXCEPT !.patches = <<>>, !.inner = <<>>, !.citadel = None,
              !.plaza = None, !.border = None, !.wall = None,
              !.streets = <<>>, !.roads = <<>>,
              !.arteries = <<>>, !.topology = None, !.ward = {}]
ResetStateReseed(m) ==
    [m EXCEPT !.patches = <<>>, !.inner = <<>>, !.citadel = None,
              !.plaza = None, !.border = None, !.wall = None,
              !.gates = <<>>, !.streets = <<>>, !.roads = <<>>,
              !.arteries = <<>>, !.topology = None, !.ward = {},
              !.rng = IF m.params.seed <= 0 THEN 1 ELSE m.params.seed]
ResetState(m) ==
    [m EXCEPT !.patches = <<>>, !.inner = <<>>, !.citadel = None,
              !.plaza = None, !.border = None, !.wall = None,
              !.gates = <<>>, !.streets = <<>>, !.roads = <<>>,
              !.arteries = <<>>, !.topology = None,
              \* the wards hang off the discarded patches
              !.ward = {}]

\* an exception leaves build() and reaches the catch clause of generate()
Throw(m, e) == [m EXCEPT !.pc = "catch", !.caught = e]

\* generate(): loop test, then either build() starts or the loop is left
GenerateStep(m) ==
    IF LoopTest(m.attempt)
    THEN [m EXCEPT !.pc = "buildPatches", !.builds = @ + 1, !.phase = 0,
                   !.streets = <<>>, !.roads = <<>>]
    ELSE [m EXCEPT !.pc = "thrown", !.error = FatalError]

CatchStep(m) ==
    [ResetState(m) EXCEPT !.attempt = m.attempt + 1, !.pc = "generate",
                          !.caught = ""]

\* Phase 1: 8 * nPatches draws; o is the number of Voronoi regions
BuildPatchesOut(m) == m.params.nPatches..(m.params.nPatches + MaxOuter)
BuildPatchesStep(m, o) ==
    LET n == m.params.nPatches
        ps == [k \in 1..o |-> <<m.attempt, k>>]
    IN [m EXCEPT !.rng = RngAfter(m.rng, 8 * n),
                 !.patches = ps,
                 !.inner = SubSeq(ps, 1, IF o < n THEN o ELSE n),
                 !.plaza = IF m.params.plazaNeeded /\ o >= 1
                           THEN Some(ps[1]) ELSE m.plaza,
                 !.citadel = IF m.params.citadelNeeded /\ o >= n + 1
                             THEN Some(ps[n + 1]) ELSE m.citadel,
                 !.phase = 1, !.pc = "optimizeJunctions"]

\* Phase 2 moves and merges vertices only
OptimizeJunctionsStep(m) == [m EXCEPT !.phase = 2, !.pc = "buildWalls"]

\* number of gates chosen out of n entrances: do { pick; drop the gate and
\* its neighbours } while (entrances.length >= 3)
RECURSIVE GateCount(_)
GateCount(n) ==
    LET rest == IF n >= 3 THEN n - 3 ELSE 0
    IN 1 + (IF rest >= 3 THEN GateCount(rest) ELSE 0)

\* Phase 3; o: entrance candidates of the border and of the citadel wall,
\* whether the citadel is compact, whether far patches get pruned
BuildWallsOut(m) ==
    [ent : 0..MaxEntrances,
     cent : IF m.citadel = None THEN {1} ELSE 0..MaxEntrances,
     compact : IF m.citadel = None THEN {TRUE} ELSE BOOLEAN,
     prune : IF Len(m.patches) > m.params.nPatches + 1 THEN BOOLEAN
             ELSE {FALSE}]
BuildWallsStep(m, o) ==
    IF o.ent = 0 THEN Throw(m, BadWalledArea)
    ELSE
    LET n == m.params.nPatches
        g == GateCount(o.ent)
        bgates == [k \in 1..g |-> <<m.attempt, 0, k>>]
        b == [real |-> m.params.wallsNeeded, gates |-> bgates]
        kept == IF o.prune
                THEN SelectSeq(m.patches, LAMBDA p : p[2] <= n + 1)
                ELSE m.patches
        m1 == [m EXCEPT !.rng = RngAfter(m.rng, g),
                        !.border = Some(b),
                        !.wall = IF m.params.wallsNeeded THEN Some(b)
                                 ELSE m.wall,
                        !.patches = kept,
                        !.gates = bgates]
    IN IF m.citadel = None
       THEN [m1 EXCEPT !.phase = 3, !.pc = "buildStreets"]
       ELSE IF o.cent = 0 THEN Throw(m1, BadWalledArea)
       ELSE
       LET cg == GateCount(o.cent)
           cgates == [k \in 1..cg |-> <<m.attempt, 1, k>>]
           m2 == [m1 EXCEPT !.rng = RngAfter(m1.rng, cg),
                            !.ward = @ \cup {<<m.citadel[1], "Castle">>}]
       IN IF ~o.compact THEN Throw(m2, BadCitadel)
          ELSE [m2 EXCEPT !.gates = bgates \o cgates,
                          !.phase = 3, !.pc = "buildStreets"]

\* Phase 4; o: the first gate without a route (0: none), the number of
\* approach roads found, the number of arteries tidyUpRoads stitches
IsBorderGate(gt) == gt[2] = 0
BuildStreetsOut(m) ==
    UNION {
      LET done == IF f = 0 THEN Len(m.gates) ELSE f - 1
          nb == Cardinality({k \in 1..done : IsBorderGate(m.gates[k])})
          na == IF done + nb < MaxArteries THEN done + nb ELSE MaxArteries
      IN [failAt : {f}, roads : 0..nb,
          arteries : IF f = 0 THEN 0..na ELSE {0}]
      : f \in 0..Len(m.gates)}
BuildStreetsStep(m, o) ==
    LET done == IF o.failAt = 0 THEN Len(m.gates) ELSE o.failAt - 1
        m1 == [m EXCEPT !.topology = Some(m.attempt),
                        !.streets = [k \in 1..done |-> <<m.attempt, k>>],
                        !.roads = [k \in 1..o.roads |-> <<m.attempt, k>>]]
    IN IF o.failAt # 0 THEN Throw(m1, NoStreet)
       ELSE IF o.arteries > Len(m1.streets) + Len(m1.roads) THEN m1
       ELSE [m1 EXCEPT !.arteries = [k \in 1..o.arteries |-> <<m.attempt, k>>],
                       !.phase = 4, !.pc = "createWards"]

\* Phase 5; o: number of draws and the ward layout, i.e. the ward type of
\* the remaining inner patches and whether the countryside becomes farms
WardLayouts ==
    {[inner |-> "Craftsmen", farm |-> TRUE], [inner |-> "Slum", farm |-> FALSE]}
CreateWardsOut(m) == [draws : 1..MaxDraws, layout : WardLayouts]
CreateWardsStep(m, o) ==
    LET market == IF m.plaza = None THEN {}
                  ELSE {<<m.plaza[1], "Market">>}
        has == {w[1] : w \in m.ward \cup market}
        inn == {<<p, o.layout.inner>> : p \in Range(m.inner) \ has}
        has2 == has \cup Range(m.inner)
        out == {<<p, IF o.layout.farm THEN "Farm" ELSE "Empty">> :
                    p \in Range(m.patches) \ has2}
    IN [m EXCEPT !.rng = RngAfter(m.rng, o.draws),
                 !.ward = @ \cup market \cup inn \cup out,
                 !.phase = 5, !.pc = "buildGeometry"]

\* Phase 6; o: number of buildings (each costs a draw on top of the first
\* one), and whether the recursion of a ward's geometry generator
\* exhausted the stack
BuildGeometryOut(m) ==
    [buildings : 0..MaxBuildings, overflow : {FALSE}]
    \cup [buildings : {0}, overflow : {TRUE}]
BuildGeometryStep(m, o) ==
    IF o.overflow THEN Throw([m EXCEPT !.rng = RngAfter(m.rng, 1)],
                             StackOverflow)
    ELSE
    LET m1 == [m EXCEPT !.rng = RngAfter(m.rng, 1 + o.buildings)]
    IN [m1 EXCEPT !.geometry = o.buildings,
                       !.phase = 6, !.pc = "returned"]

(***************************************************************************)
(* The two instances run side by side.  What a phase produces is a         *)
(* function of the instance (parameters, generator state, what the earlier *)
(* phases left): instances in the same state get the same outcome.         *)
(***************************************************************************)
At(p) == {i \in Inst : model[i].pc = p}

Lockstep(p, Out(_), Step(_, _)) ==
    LET sts == {model[i] : i \in At(p)}
    IN /\ At(p) # {}
       /\ \E o \in [sts -> UNION {Out(s) : s \in sts}] :
            /\ \A s \in sts : o[s] \in Out(s)
            /\ model' = [i \in Inst |->
                          IF i \in At(p) THEN Step(model[i], o[model[i]])
                          ELSE model[i]]
       /\ UNCHANGED otherThanGen

NoOut(m) == {0}
GenerateStep2(m, o) == GenerateStep(m)
OptimizeJunctionsStep2(m, o) == OptimizeJunctionsStep(m)
CatchStep2(m, o) == CatchStep(m)

Generate == Lockstep("generate", NoOut, GenerateStep2)
BuildPatches == Lockstep("buildPatches", BuildPatchesOut, BuildPatchesStep)
OptimizeJunctions ==
    Lockstep("optimizeJunctions", NoOut, OptimizeJunctionsStep2)
BuildWalls == Lockstep("buildWalls", BuildWallsOut, BuildWallsStep)
BuildStreets == Lockstep("buildStreets", BuildStreetsOut, BuildStreetsStep)
CreateWards == Lockstep("createWards", CreateWardsOut, CreateWardsStep)
BuildGeometry == Lockstep("buildGeometry", BuildGeometryOut, BuildGeometryStep)
Catch == Lockstep("catch", NoOut, CatchStep2)

GenInit ==
    \E p \in ParamsSet :
      \E r \in [Inst -> SeededRandomNew(p.seed)] :
        model = [i \in Inst |-> NewModel(p, r[i])]

Init ==
    /\ GenInit /\ GraphIdle /\ WallIdle /\ AlleysIdle
    /\ CutIdle /\ RndIdle /\ WardsIdle /\ TopoIdle /\ JuncIdle
    /\ HelpersIdle

Next ==
    \/ Generate
    \/ BuildPatches
    \/ OptimizeJunctions
    \/ BuildWalls
    \/ BuildStreets
    \/ CreateWards
    \/ BuildGeometry
    \/ Catch

Spec == Init /\ [][Next]_vars

(***************************************************************************)
(* Properties of the pipeline                                              *)
(***************************************************************************)
Cleared(m) ==
    /\ m.patches = <<>> /\ m.inner = <<>> /\ m.gates = <<>>
    /\ m.streets = <<>> /\ m.roads = <<>> /\ m.arteries = <<>>
    /\ m.citadel = None /\ m.plaza = None /\ m.border = None
    /\ m.wall = None /\ m.topology = None

\* everything the model holds was produced by the attempt numbered k
FromAttempt(m, k) ==
    /\ \A x \in Range(m.patches) \cup Range(m.inner) \cup Range(m.gates)
             \cup Range(m.streets) \cup Range(m.roads) \cup Range(m.arteries)
             \cup Range(m.citadel) \cup Range(m.plaza) : x[1] = k
    /\ \A w \in Range(m.border) \cup Range(m.wall) :
          \A x \in Range(w.gates) : x[1] = k
    /\ \A x \in Range(m.topology) : x = k

\* C1: generate() calls build() at most MAX_ATTEMPTS times; it returns
\* right after the first attempt that completes (every earlier build
\* failed and was caught); when all MAX_ATTEMPTS builds failed it throws
\* the fatal error, and no other error ever leaves generate().
Thm_C1 ==
    \A i \in Inst :
      LET m == model[i] IN
      /\ m.builds <= MAX_ATTEMPTS
      /\ m.error \in {"", FatalError}
      /\ m.pc = "returned" =>
            m.builds = m.attempt + 1 /\ m.phase = 6 /\ m.error = ""
      /\ m.pc = "thrown" =>
            m.builds = MAX_ATTEMPTS /\ m.attempt = MAX_ATTEMPTS
            /\ m.error = FatalError

Wit_C1 ==
    \E i \in Inst : model[i].pc = "thrown" /\ model[i].builds = MAX_ATTEMPTS

\* C2: once a failed attempt has been caught, patches, inner, gates,
\* streets, roads, arteries are empty and citadel, plaza, border, wall,
\* topology are null when the next attempt starts or the fatal error is
\* raised; a returned model completed all six phases and holds only what
\* its last attempt produced.
Thm_C2 ==
    \A i \in Inst :
      LET m == model[i] IN
      /\ (m.pc = "generate" \/ m.pc = "thrown") => Cleared(m)
      /\ m.pc = "returned" => m.phase = 6 /\ FromAttempt(m, m.attempt)

Wit_C2 ==
    \E i \in Inst :
      /\ model[i].pc = "returned" /\ model[i].attempt > 0
      /\ model[i].citadel # None /\ model[i].plaza # None

Thm_C4 ==
    [][\A i \in Inst :
         model[i].pc \in {"catch", "generate"} =>
            model'[i].rng = model[i].rng]_vars

Wit_C4 ==
    \E i \in Inst :
      /\ model[i].pc = "buildPatches" /\ model[i].attempt >= 1
      /\ model[i].rng \notin SeededRandomNew(model[i].params.seed)

(***************************************************************************)
(* Node / Graph (src/src/geom/graph.ts)                                    *)
(***************************************************************************)
MaxNodes == 3
MaxLinks == 3

Nodes == 1..MaxNodes
Prices == {0, 1, 3}

\* Map.has / Map.get / Map.set on a Map kept as a sequence of pairs:
\* set on a present key keeps the key's position
MapHas(mp, k) == \E i \in 1..Len(mp) : mp[i][1] = k
MapGet(mp, k) == mp[CHOOSE i \in 1..Len(mp) : mp[i][1] = k][2]
MapSet(mp, k, v) ==
    IF MapHas(mp, k)
    THEN [i \in 1..Len(mp) |-> IF mp[i][1] = k THEN <<k, v>> ELSE mp[i]]
    ELSE Append(mp, <<k, v>>)

\* Node.link(node, price, symmetrical)
LinkNodes(ls, a, b, price, symmetrical) ==
    LET l1 == [ls EXCEPT ![a] = MapSet(ls[a], b, price)]
    IN IF symmetrical THEN [l1 EXCEPT ![b] = MapSet(l1[b], a, price)]
       ELSE l1

NumLinks(ls) ==
    Cardinality({e \in Nodes \X Nodes : MapHas(ls[e[1]], e[2])})

\* Graph.buildPath: follow cameFrom back from the goal
RECURSIVE BuildPathStopEarly(_, _)
BuildPathStopEarly(cameFrom, current) ==
    IF MapHas(cameFrom, current)
       /\ MapHas(cameFrom, MapGet(cameFrom, current))
    THEN <<current>> \o BuildPathStopEarly(cameFrom, MapGet(cameFrom, current))
    ELSE <<current>>
RECURSIVE BuildPathFrom(_, _)
BuildPathFrom(cameFrom, current) ==
    IF MapHas(cameFrom, current)
    THEN <<current>> \o BuildPathFrom(cameFrom, MapGet(cameFrom, current))
    ELSE <<current>>

\* the closed set aStar starts with
InitialClosedIgnoreExclude(exclude) == <<>>
InitialClosed(exclude) == exclude

\* the body of the for loop over current.links, from the k-th link on
RECURSIVE RelaxLinksPushAlways(_, _, _, _)
RelaxLinksPushAlways(st, current, ls, k) ==
    IF k > Len(ls) THEN st
    ELSE
    LET neighbour == ls[k][1]
        cost == ls[k][2]
        score == MapGet(st.gScore, current) + cost
        inOpen == neighbour \in Range(st.openSet)
        st1 == IF neighbour \in Range(st.closedSet) THEN st
               ELSE IF inOpen /\ score >= MapGet(st.gScore, neighbour) THEN st
               ELSE [st EXCEPT
                       !.openSet = Append(@, neighbour),
                       !.cameFrom = MapSet(@, neighbour, current),
                       !.gScore = MapSet(@, neighbour, score)]
    IN RelaxLinksPushAlways(st1, current, ls, k + 1)
RECURSIVE RelaxLinks(_, _, _, _)
RelaxLinks(st, current, ls, k) ==
    IF k > Len(ls) THEN st
    ELSE
    LET neighbour == ls[k][1]
        cost == ls[k][2]
        score == MapGet(st.gScore, current) + cost
        inOpen == neighbour \in Range(st.openSet)
        st1 == IF neighbour \in Range(st.closedSet) THEN st
               ELSE IF inOpen /\ score >= MapGet(st.gScore, neighbour) THEN st
               ELSE [st EXCEPT
                       !.openSet = IF inOpen THEN @ ELSE Append(@, neighbour),
                       !.cameFrom = MapSet(@, neighbour, current),
                       !.gScore = MapSet(@, neighbour, score)]
    IN RelaxLinks(st1, current, ls, k + 1)

\* the while loop of aStar
RECURSIVE AStarLoop(_, _, _)
AStarLoop(ls, st, goal) ==
    IF st.openSet = <<>> THEN None
    ELSE
    LET current == Head(st.openSet)
        st1 == [st EXCEPT !.openSet = Tail(@),
                          !.closedSet = Append(@, current)]
    IN IF current = goal THEN Some(BuildPathFrom(st.cameFrom, current))
       ELSE AStarLoop(ls, RelaxLinks(st1, current, ls[current], 1), goal)

\* Graph.aStar(start, goal, exclude)
AStar(ls, start, goal, exclude) ==
    AStarLoop(ls,
              [closedSet |-> InitialClosed(exclude), openSet |-> <<start>>,
               cameFrom |-> <<>>, gScore |-> <<<<start, 0>>>>],
              goal)

\* the exclude lists tried: every set of nodes, in ascending order
RECURSIVE SetToSeq(_)
SetToSeq(S) ==
    IF S = {} THEN <<>>
    ELSE LET x == CHOOSE y \in S : \A z \in S : y <= z
         IN <<x>> \o SetToSeq(S \ {x})

GraphInit ==
    /\ links = [n \in Nodes |-> <<>>]
    /\ gpc = "build"
    /\ query = <<>>
    /\ path = None

Link ==
    /\ gpc = "build"
    /\ \E a, b \in Nodes, price \in Prices :
         /\ a # b
         \* every caller leaves symmetrical at its default, true
         /\ links' = LinkNodes(links, a, b, price, TRUE)
         /\ NumLinks(links') <= 2 * MaxLinks
    /\ UNCHANGED <<gpc, query, path>>
    /\ UNCHANGED otherThanGraph

Search ==
    /\ gpc = "build"
    /\ \E start, goal \in Nodes, ex \in SUBSET Nodes :
         /\ query' = [start |-> start, goal |-> goal, exclude |-> SetToSeq(ex)]
         /\ path' = AStar(links, start, goal, SetToSeq(ex))
    /\ gpc' = "searched"
    /\ UNCHANGED links
    /\ UNCHANGED otherThanGraph

GenIdle == model = <<>>

InitGraph ==
    /\ GenIdle /\ GraphInit /\ WallIdle /\ AlleysIdle
    /\ CutIdle /\ RndIdle /\ WardsIdle /\ TopoIdle /\ JuncIdle
    /\ HelpersIdle

NextGraph == Link \/ Search

SpecGraph == InitGraph /\ [][NextGraph]_vars

(***************************************************************************)
(* Properties of Graph.aStar                                               *)
(***************************************************************************)
Infinity == -1

MinOf(S) == CHOOSE x \in S : \A y \in S : x <= y

\* cheapest way to reach every node from start in at most k links, the
\* nodes after start staying off the exclude list
\* one round of relaxation of the cheapest known weights d
RelaxOnce(ls, exclude, d) ==
    [v \in Nodes |->
        LET via == {d[u] + MapGet(ls[u], v) :
                      u \in {w \in Nodes : d[w] # Infinity /\ MapHas(ls[w], v)}}
            cand == (IF d[v] = Infinity THEN {} ELSE {d[v]})
                    \cup (IF v \in Range(exclude) THEN {} ELSE via)
        IN IF cand = {} THEN Infinity ELSE MinOf(cand)]

\* cheapest way to reach every node from start in at most k links, the
\* nodes after start staying off the exclude list
RECURSIVE Cheapest(_, _, _, _)
Cheapest(ls, exclude, d, k) ==
    IF k = 0 THEN d ELSE Cheapest(ls, exclude, RelaxOnce(ls, exclude, d), k - 1)

MinWeight(ls, start, goal, exclude) ==
    Cheapest(ls, exclude,
             [n \in Nodes |-> IF n = start THEN 0 ELSE Infinity],
             MaxNodes)[goal]

\* the nodes reached from those in S over at most k links, the nodes after
\* start staying off the exclude list
RECURSIVE ReachSet(_, _, _, _)
ReachSet(ls, exclude, S, k) ==
    IF k = 0 THEN S
    ELSE ReachSet(ls, exclude,
                  S \cup {v \in Nodes \ Range(exclude) :
                            \E u \in S : MapHas(ls[u], v)},
                  k - 1)

Reachable(ls, start, goal, exclude) ==
    goal \in ReachSet(ls, exclude, {start}, MaxNodes)

RECURSIVE PathWeight(_, _)
PathWeight(ls, p) ==
    IF Len(p) <= 1 THEN 0
    ELSE MapGet(ls[p[2]], p[1]) + PathWeight(ls, Tail(p))

\* C5: whenever aStar returns a path, its total weight is the minimum over
\* all start-to-goal paths avoiding the excluded nodes.
CE_C5 ==
    (gpc = "searched" /\ path # None) =>
        PathWeight(links, path[1])
            = MinWeight(links, query.start, query.goal, query.exclude)

\* C6: aStar returns null exactly when the goal cannot be reached from
\* start over links whose nodes after start are off the exclude list, and
\* returns <<start>> when start = goal.
Thm_C6 ==
    gpc = "searched" =>
      /\ path = None <=>
           ~Reachable(links, query.start, query.goal, query.exclude)
      /\ query.start = query.goal => path = Some(<<query.start>>)

Wit_C6 ==
    /\ gpc = "searched" /\ path = None
    /\ links[query.start] # <<>> /\ links[query.goal] # <<>>
    /\ query.exclude # <<>>
    /\ Reachable(links, query.start, query.goal, <<>>)

\* C7: a returned path runs from the goal back to start, consecutive
\* nodes are linked, no node occurs twice and no excluded node occurs in
\* it other than start.
Thm_C7 ==
    (gpc = "searched" /\ path # None) =>
      LET p == path[1] IN
      /\ p[1] = query.goal /\ p[Len(p)] = query.start
      /\ \A i \in 1..(Len(p) - 1) : MapHas(links[p[i + 1]], p[i])
      /\ \A i, j \in 1..Len(p) : p[i] = p[j] => i = j
      /\ \A i \in 1..Len(p) :
            p[i] \in Range(query.exclude) => p[i] = query.start

Wit_C7 ==
    /\ gpc = "searched" /\ path # None
    /\ Len(path[1]) = 3 /\ query.exclude # <<>>

\* the iterations of the while loop of aStar: the node shifted off the
\* open set in each, and the open set and closed set each ends with
RECURSIVE AStarRuns(_, _, _)
AStarRuns(ls, st, goal) ==
    IF st.openSet = <<>> THEN <<>>
    ELSE
    LET current == Head(st.openSet)
        st1 == [st EXCEPT !.openSet = Tail(@),
                          !.closedSet = Append(@, current)]
        st2 == RelaxLinks(st1, current, ls[current], 1)
    IN IF current = goal
       THEN <<[current |-> current, openSet |-> st1.openSet,
               closedSet |-> st.closedSet]>>
       ELSE <<[current |-> current, openSet |-> st2.openSet,
               closedSet |-> st2.closedSet]>>
            \o AStarRuns(ls, st2, goal)

QueryRuns ==
    AStarRuns(links,
              [closedSet |-> InitialClosed(query.exclude),
               openSet |-> <<query.start>>,
               cameFrom |-> <<>>, gScore |-> <<<<query.start, 0>>>>],
              query.goal)

\* C30: aStar terminates on every finite graph, cycles and zero-weight
\* links included: the main loop runs at most once per node, no node is
\* shifted off the open set twice, the open set never holds a node twice
\* and never holds a closed node.
Thm_C30 ==
    gpc = "searched" =>
      LET runs == QueryRuns IN
      /\ Len(runs) <= MaxNodes
      /\ \A i, j \in 1..Len(runs) :
            runs[i].current = runs[j].current => i = j
      /\ \A i \in 1..Len(runs) :
            /\ \A a, b \in 1..Len(runs[i].openSet) :
                  runs[i].openSet[a] = runs[i].openSet[b] => a = b
            /\ Range(runs[i].openSet) \cap Range(runs[i].closedSet) = {}
      /\ path = None <=> (runs = <<>> \/ runs[Len(runs)].current # query.goal)

\* a search over a zero-weight link that expands several nodes and finds
\* nothing
Wit_C30 ==
    /\ gpc = "searched" /\ path = None
    /\ Len(QueryRuns) >= 2
    /\ \E i \in 1..Len(links[query.start]) : links[query.start][i][2] = 0
    /\ query.exclude # <<>>

(***************************************************************************)
(* CurtainWall (src/unnamed/part_008 with roadEntryPoints,                 *)
(*              src/unnamed/part_009 without)                              *)
(*                                                                         *)
(* Wall vertices are numbered 1..shape in wall order.  Angles are counted  *)
(* in units of 1/Turn of a full turn, in the range of atan2.               *)
(***************************************************************************)
MaxWall == 6          \* most vertices of a wall shape
MaxReserved == 1      \* most reserved vertices
MaxBearings == 2      \* most roadEntryPoints

Turn == 12
BearingAngles == {-4, 1, 6}
Variants == {"roadEntryPoints", "original"}

Abs(x) == IF x < 0 THEN -x ELSE x

\* Math.atan2(v.y, v.x) of wall vertex v
VertexAngle(v, n) == ((v - 1) * Turn) \div n - Turn \div 2 + 1

\* part_008 118-119
AngleDiff(vAngle, targetAngle) ==
    LET diff == Abs(vAngle - targetAngle)
    IN IF diff > Turn \div 2 THEN Turn - diff ELSE diff

\* entryAngles: the bearings sorted by angle (part_008 106-108)
SortedSeq(S) ==
    CHOOSE q \in [1..Cardinality(S) -> S] :
        \A i, j \in 1..Cardinality(S) : i < j => q[i] < q[j]

\* buildGates 45-53
Entrances(w) ==
    LET Candidate(v) ==
            IF w.multi THEN v \notin w.reserved /\ v \in w.shared
            ELSE v \notin w.reserved
    IN SelectSeq([v \in 1..w.shape |-> v], Candidate)

\* Array.prototype.splice(start, count), pop() and shift(): what is left
Splice(a, start, count) ==
    SubSeq(a, 1, start) \o SubSeq(a, start + count + 1, Len(a))
Pop(a) == IF a = <<>> THEN a ELSE SubSeq(a, 1, Len(a) - 1)
Shift(a) == IF a = <<>> THEN a ELSE Tail(a)

\* "Remove neighbouring entrances", index counted from 0 as in the source
RemoveNeighboursNoWrap(entrances, index) ==
    Splice(entrances, IF index = 0 THEN 0 ELSE index - 1,
                      IF index = 0 \/ index = Len(entrances) - 1 THEN 2 ELSE 3)
RemoveNeighbours(entrances, index) ==
    IF index = 0 THEN Pop(Splice(entrances, 0, 2))
    ELSE IF index = Len(entrances) - 1
         THEN Shift(Splice(entrances, index - 1, 2))
    ELSE Splice(entrances, index - 1, 3)

\* selectGate (part_008 59-102), the loop body of part_009 60-103: the
\* gate is pushed, a real wall splits the one outer patch at the gate when
\* that patch has more than three vertices, the neighbours are removed
SelectGate(w, index) ==
    [w EXCEPT !.gates = Append(@, w.entrances[index + 1]),
              !.splits = IF w.real /\ w.outer > 3 THEN @ + 1 ELSE @,
              !.entrances = RemoveNeighbours(@, index)]

\* part_008 113-124: the first entrance at the least angular distance
BestIdx(w, targetAngle) ==
    LET dist(i) == AngleDiff(VertexAngle(w.entrances[i + 1], w.shape),
                             targetAngle)
    IN CHOOSE i \in 0..(Len(w.entrances) - 1) :
          \A j \in 0..(Len(w.entrances) - 1) :
              dist(j) > dist(i) \/ (dist(j) = dist(i) /\ j >= i)

WallInputs ==
    [variant : Variants, real : BOOLEAN, shape : 3..MaxWall,
     reserved : SUBSET (1..MaxWall), multi : BOOLEAN,
     shared : SUBSET (1..MaxWall), roadEntryPoints : SUBSET BearingAngles,
     outer : {0, 3, 4}]

NewWall(in) ==
    [variant |-> in.variant, real |-> in.real, shape |-> in.shape,
     reserved |-> in.reserved, multi |-> in.multi, shared |-> in.shared,
     roadEntryPoints |-> in.roadEntryPoints, outer |-> in.outer,
     initial |-> <<>>, entrances |-> <<>>, gates |-> <<>>,
     bearings |-> <<>>, first |-> FALSE, splits |-> 0,
     pc |-> "new", error |-> None]

WallInit ==
    \E in \in WallInputs :
       /\ in.reserved \subseteq 1..in.shape
       /\ in.shared \subseteq 1..in.shape
       /\ Cardinality(in.reserved) <= MaxReserved
       /\ Cardinality(in.roadEntryPoints) <= MaxBearings
       \* what the inputs cannot influence is left at one value
       /\ ~in.multi => in.shared = {}
       /\ ~in.real => in.outer = 0
       /\ in.variant = "original" => in.roadEntryPoints = {}
       /\ cw = NewWall(in)

\* the for loop over entryAngles has ended (part_008 105, 110-111)
BearingLoopDone(w) == w.bearings = <<>> \/ Len(w.entrances) < 1

\* the loop test of the random loop: part_008 131, and part_009 59/104
\* whose do-while runs its body once before the test
RandomLoopTestFromTwo(w) == w.first \/ Len(w.entrances) >= 2
RandomLoopTest(w) == w.first \/ Len(w.entrances) >= 3

\* the constructor up to the gate loops (41-57)
NewCurtainWall ==
    /\ cw.pc = "new"
    /\ LET entrances == Entrances(cw) IN
       IF Len(entrances) = 0
       THEN cw' = [cw EXCEPT !.pc = "threw", !.error = Some(BadWalledArea)]
       ELSE cw' = [cw EXCEPT
                     !.pc = "gates",
                     !.initial = entrances,
                     !.entrances = entrances,
                     !.first = (cw.variant = "original"),
                     !.bearings = SortedSeq(cw.roadEntryPoints)]
    /\ UNCHANGED otherThanWall

\* one pass of the bearing loop (part_008 110-127)
SelectBearingGate ==
    /\ cw.pc = "gates"
    /\ ~BearingLoopDone(cw)
    /\ cw' = [SelectGate(cw, BestIdx(cw, Head(cw.bearings)))
                EXCEPT !.bearings = Tail(cw.bearings)]
    /\ UNCHANGED otherThanWall

\* one pass of the random loop (part_008 131-134, part_009 59-104)
SelectRandomGate ==
    /\ cw.pc = "gates"
    /\ BearingLoopDone(cw)
    /\ RandomLoopTest(cw)
    /\ \E index \in 0..(Len(cw.entrances) - 1) :     \* rng.int(0, length)
         cw' = [SelectGate(cw, index) EXCEPT !.first = FALSE]
    /\ UNCHANGED otherThanWall

\* after the loops (part_008 136-145, part_009 106-115)
FinishGates ==
    /\ cw.pc = "gates"
    /\ BearingLoopDone(cw)
    /\ ~RandomLoopTest(cw)
    /\ cw' = IF Len(cw.gates) = 0
             THEN [cw EXCEPT !.pc = "threw", !.error = Some(BadWalledArea)]
             ELSE [cw EXCEPT !.pc = "done"]
    /\ UNCHANGED otherThanWall

InitWall ==
    /\ GenIdle /\ GraphIdle /\ WallInit /\ AlleysIdle
    /\ CutIdle /\ RndIdle /\ WardsIdle /\ TopoIdle /\ JuncIdle
    /\ HelpersIdle

NextWall ==
    \/ NewCurtainWall
    \/ SelectBearingGate
    \/ SelectRandomGate
    \/ FinishGates

SpecWall == InitWall /\ [][NextWall]_vars

(***************************************************************************)
(* Properties of CurtainWall gate selection                                *)
(***************************************************************************)
\* C8: a wall with at least one entrance candidate ends with at least one
\* gate, with or without bearings; a wall with no candidate throws
\* 'Bad walled area shape!'.
CE_C8 ==
    cw.pc \in {"done", "threw"} =>
        IF Len(Entrances(cw)) >= 1
        THEN cw.pc = "done" /\ Len(cw.gates) >= 1
        ELSE cw.pc = "threw" /\ cw.error = Some(BadWalledArea)

Adjacent(initial, a, b) ==
    \E i \in 1..Len(initial) :
        LET j == (i % Len(initial)) + 1
        IN a # b /\ {initial[i], initial[j]} = {a, b}

GatesSpaced(w) ==
    /\ \A i, j \in 1..Len(w.gates) : w.gates[i] = w.gates[j] => i = j
    /\ Range(w.gates) \subseteq Range(w.initial)
    /\ Range(w.gates) \subseteq (1..w.shape) \ w.reserved
    /\ \A a, b \in Range(w.gates) : ~Adjacent(w.initial, a, b)

\* C9: every selection removes the gate and its two neighbours in the
\* current cyclic order from the candidates, and the gates stay pairwise
\* distinct, initial candidates, and never adjacent in the initial cyclic
\* order of the candidates.
Thm_C9 ==
    [][cw'.gates # cw.gates =>
         LET e == cw.entrances
             n == Len(e)
             g == cw'.gates[Len(cw'.gates)]
             i == CHOOSE k \in 1..n : e[k] = g
             gone == {g, e[((i + n - 2) % n) + 1], e[(i % n) + 1]}
             Stays(x) == x \notin gone
         IN /\ cw'.gates = Append(cw.gates, g)
            /\ g \in Range(e)
            /\ cw'.entrances = SelectSeq(e, Stays)
            /\ GatesSpaced(cw')]_vars

Wit_C9 ==
    /\ cw.pc = "done"
    /\ Len(cw.gates) >= 2
    /\ cw.gates[1] = cw.initial[Len(cw.initial)]

(***************************************************************************)
(* createAlleys (src/unnamed/part_003 142-187), bisect and Polygon.cut     *)
(* (src/geom/geom-utils.ts)                                                *)
(*                                                                         *)
(* Coordinates are fixed point: integers counting 1/Scale of a unit, a     *)
(* point is <<x, y>>, a polygon the sequence of its vertices.  Parametric  *)
(* values of an intersection are exact fractions <<numerator,              *)
(* denominator>>; a new vertex is rounded to the nearest 1/Scale.          *)
(* Chaos parameters and minSq count tenths and 1/Scale^2.                  *)
(***************************************************************************)
MaxStack == 6         \* deepest nesting of createAlleys calls

Scale == 10
ALLEY == 6            \* 0.6

Rnd(a, b) ==
    IF b < 0 THEN (2 * (-a) - b) \div (2 * (-b)) ELSE (2 * a + b) \div (2 * b)

ISqrt(x) == CHOOSE r \in 0..x : r * r <= x /\ (r + 1) * (r + 1) > x

\* Point.add, subtract, rotate90, norm
PointAdd(a, b) == <<a[1] + b[1], a[2] + b[2]>>
PointSubtract(a, b) == <<a[1] - b[1], a[2] - b[2]>>
Rotate90(a) == <<-a[2], a[1]>>
PointNorm(a, len) ==
    LET d == ISqrt(a[1] * a[1] + a[2] * a[2])
    IN IF d > 0 THEN <<Rnd(a[1] * len, d), Rnd(a[2] * len, d)>> ELSE a

Cross(x1, y1, x2, y2) == x1 * y2 - y1 * x2

\* vertices[i], i counted from 0 and wrapping as vertices[(i + 1) % len]
Vertex(poly, i) == poly[(i % Len(poly)) + 1]

\* Array.prototype.slice(from, to), counted from 0
Slice(a, from, to) == SubSeq(a, from + 1, to)

RECURSIVE ShoelaceSum(_, _)
ShoelaceSum(poly, i) ==
    IF i = Len(poly) THEN 0
    ELSE Cross(Vertex(poly, i)[1], Vertex(poly, i)[2],
               Vertex(poly, i + 1)[1], Vertex(poly, i + 1)[2])
         + ShoelaceSum(poly, i + 1)

\* twice Polygon.square (the getter returns s * 0.5)
Square2(poly) == IF Len(poly) < 3 THEN 0 ELSE ShoelaceSum(poly, 0)

\* Polygon.vectori
Vectori(poly, i) == PointSubtract(Vertex(poly, i + 1), Vertex(poly, i))

\* geom-utils.ts intersectLines: None for null, else the parametric
\* values x = t1 and y = t2 as fractions
IntersectLines(x1, y1, dx1, dy1, x2, y2, dx2, dy2) ==
    LET d == dx1 * dy2 - dy1 * dx2
        n2 == dy1 * (x2 - x1) - dx1 * (y2 - y1)
    IN IF d = 0 THEN None
       ELSE Some([x |-> IF dx1 # 0
                        THEN <<(x2 - x1) * d + dx2 * n2, dx1 * d>>
                        ELSE <<(y2 - y1) * d + dy2 * n2, dy1 * d>>,
                  y |-> <<n2, d>>])

\* t >= 0 && t <= 1 for a fraction t
InUnit(t) ==
    IF t[2] > 0 THEN 0 <= t[1] /\ t[1] <= t[2]
    ELSE t[2] <= t[1] /\ t[1] <= 0

\* p + dir.scale(ratio) (the first definition forgets the ratio)
AlongLineAtStart(p, dir, ratio) == p
AlongLine(p, dir, ratio) ==
    <<p[1] + Rnd(dir[1] * ratio[1], ratio[2]),
      p[2] + Rnd(dir[2] * ratio[1], ratio[2])>>

\* Polygon.cut and Polygon.peel
RECURSIVE Cut(_, _, _, _)
RECURSIVE Peel(_, _, _)
Cut(poly, p1, p2, gap) ==
    LET len == Len(poly)
        dir == PointSubtract(p2, p1)
        T(i) == IntersectLines(p1[1], p1[2], dir[1], dir[2],
                               Vertex(poly, i)[1], Vertex(poly, i)[2],
                               Vectori(poly, i)[1], Vectori(poly, i)[2])
        Crossed(i) == T(i) # None /\ InUnit(T(i)[1].y)
        crossings == SelectSeq([k \in 1..len |-> k - 1], Crossed)
        cnt == Len(crossings)
    IN IF cnt = 2
       THEN LET edge1 == crossings[1]
                edge2 == crossings[2]
                point1 == AlongLine(p1, dir, T(edge1)[1].x)
                point2 == AlongLine(p1, dir, T(edge2)[1].x)
                half1 == <<point1>> \o Slice(poly, edge1 + 1, edge2 + 1)
                                    \o <<point2>>
                half2 == <<point2>> \o Slice(poly, edge2 + 1, len)
                                    \o Slice(poly, 0, edge1 + 1)
                                    \o <<point1>>
                h1 == IF gap > 0 THEN Peel(half1, Len(half1) - 1, gap \div 2)
                      ELSE half1
                h2 == IF gap > 0 THEN Peel(half2, Len(half2) - 1, gap \div 2)
                      ELSE half2
                v == Vectori(poly, edge1)
            IN IF Cross(dir[1], dir[2], v[1], v[2]) > 0 THEN <<h1, h2>>
               ELSE <<h2, h1>>
       ELSE <<poly>>

\* i1 is indexOf(v1)
Peel(poly, i1, d) ==
    LET v1 == Vertex(poly, i1)
        v2 == Vertex(poly, i1 + 1)
        n == PointNorm(Rotate90(PointSubtract(v2, v1)), d)
    IN Cut(poly, PointAdd(v1, n), PointAdd(v2, n), 0)[1]

\* geom-utils.ts interpolate, the ratio a fraction
Interpolate(p1, p2, ratio) ==
    LET d == PointSubtract(p2, p1)
    IN <<p1[1] + Rnd(d[1] * ratio[1], ratio[2]),
         p1[2] + Rnd(d[2] * ratio[1], ratio[2])>>

\* geom-utils.ts bisect; vertex is the index of the vertex, and angle the
\* pair <<cosB, sinB>> up to a common positive factor, which leaves the cut
\* line where it is
Bisect(poly, vertex, ratio, angle, gap) ==
    LET next == Vertex(poly, vertex + 1)
        p1 == Interpolate(Vertex(poly, vertex), next, ratio)
        d == PointSubtract(next, Vertex(poly, vertex))
        vx == d[1] * angle[1] - d[2] * angle[2]
        vy == d[2] * angle[1] + d[1] * angle[2]
        p2 == <<p1[1] - vy, p1[2] + vx>>
    IN Cut(poly, p1, p2, gap)

\* createAlleys 151-160: the first vertex of the longest edge
LongestEdge(poly) ==
    LET len2(i) == Vectori(poly, i)[1] * Vectori(poly, i)[1]
                   + Vectori(poly, i)[2] * Vectori(poly, i)[2]
    IN CHOOSE i \in 0..(Len(poly) - 1) :
          \A j \in 0..(Len(poly) - 1) :
              len2(j) < len2(i) \/ (len2(j) = len2(i) /\ j >= i)

\* createAlleys 162-163: (1 - spread) / 2 + rng.float() * spread
RatioSet(gridChaos) ==
    IF gridChaos = 0 THEN {<<1, 2>>} ELSE {<<3, 10>>, <<1, 2>>}

\* createAlleys 165-166: (rng.float() - 0.5) * angleSpread
AngleSet(gridChaos, poly, minSq) ==
    IF gridChaos = 0 \/ Square2(poly) < 2 * (minSq * 4) THEN {<<1, 0>>}
    ELSE {<<1, 0>>, <<8, 1>>}

\* createAlleys 172: Math.pow(2, 4 * sizeChaos * (rng.float() - 0.5))
FactorSet(sizeChaos) ==
    IF sizeChaos = 0 THEN {<<1, 1>>} ELSE {<<1, 2>>, <<1, 1>>}

AlleyCall(poly, split, depth) ==
    [kind |-> "call", p |-> poly, split |-> split, depth |-> depth]
AlleyBuilding(poly) ==
    [kind |-> "building", p |-> poly, split |-> FALSE, depth |-> 0]
AlleyNothing ==
    [kind |-> "nothing", p |-> <<>>, split |-> FALSE, depth |-> 0]

\* createAlleys 172-184: what one half turns into (the first definition
\* leaves out the test half.length >= 4)
HalfOutcomesAnyLength(a, half, depth) ==
    LET Small(f) == Square2(half) * f[2] < 2 * a.minSq * f[1]
    IN UNION {
         IF Small(f)
         THEN {AlleyBuilding(half), AlleyNothing}
         ELSE {AlleyCall(half, split, depth + 1) :
                 split \in {b \in BOOLEAN :
                              b => Square2(half) > 2 * a.minSq}}
         : f \in FactorSet(a.sizeChaos)}
HalfOutcomes(a, half, depth) ==
    LET Small(f) == Square2(half) * f[2] < 2 * a.minSq * f[1]
    IN UNION {
         IF Small(f)
         THEN (IF Len(half) >= 4 THEN {AlleyBuilding(half)} ELSE {})
              \cup {AlleyNothing}          \* too few vertices, or left empty
         ELSE {AlleyCall(half, split, depth + 1) :
                 split \in {b \in BOOLEAN :
                              b => Square2(half) > 2 * a.minSq}}
         : f \in FactorSet(a.sizeChaos)}

\* results reach the buildings list in the order of the depth-first calls
RECURSIVE Flush(_)
Flush(a) ==
    IF a.stack = <<>> THEN [a EXCEPT !.pc = "done"]
    ELSE IF Head(a.stack).kind = "call" THEN a
    ELSE Flush([a EXCEPT
                  !.stack = Tail(@),
                  !.buildings = IF Head(a.stack).kind = "building"
                                THEN Append(@, Head(a.stack).p) ELSE @])

Blocks ==
    { << <<0, 0>>, <<40, 0>>, <<40, 20>>, <<0, 20>> >>,
      << <<0, 0>>, <<40, 0>>, <<30, 20>>, <<10, 20>> >>,
      << <<0, 0>>, <<40, 0>>, <<20, 15>> >> }
MinSqSet == {300, 400}
ChaosSet == {0, 5}

AlleysInit ==
    \E block \in Blocks, minSq \in MinSqSet,
       gridChaos \in ChaosSet, sizeChaos \in ChaosSet :
        alleys = [minSq |-> minSq, gridChaos |-> gridChaos,
                  sizeChaos |-> sizeChaos,
                  stack |-> <<AlleyCall(block, TRUE, 0)>>,
                  buildings |-> <<>>, pc |-> "run", error |-> None]

\* one call of createAlleys, up to its recursive calls
CreateAlleys ==
    /\ alleys.pc = "run"
    /\ LET call == Head(alleys.stack) IN
       IF call.depth >= MaxStack
       THEN alleys' = [alleys EXCEPT !.pc = "threw",
                                     !.error = Some(StackOverflow)]
       ELSE \E ratio \in RatioSet(alleys.gridChaos),
               angle \in AngleSet(alleys.gridChaos, call.p, alleys.minSq) :
              LET halves == Bisect(call.p, LongestEdge(call.p), ratio, angle,
                                   IF call.split THEN ALLEY ELSE 0)
                  outs == UNION {HalfOutcomes(alleys, halves[i], call.depth) :
                                   i \in 1..Len(halves)}
              IN \E o \in [1..Len(halves) -> outs] :
                   /\ \A i \in 1..Len(halves) :
                         o[i] \in HalfOutcomes(alleys, halves[i], call.depth)
                   /\ alleys' = Flush([alleys EXCEPT
                                         !.stack = o \o Tail(alleys.stack)])
    /\ UNCHANGED otherThanAlleys

InitAlleys ==
    /\ GenIdle /\ GraphIdle /\ WallIdle /\ AlleysInit
    /\ CutIdle /\ RndIdle /\ WardsIdle /\ TopoIdle /\ JuncIdle
    /\ HelpersIdle

NextAlleys == CreateAlleys

SpecAlleys == InitAlleys /\ [][NextAlleys]_vars

(***************************************************************************)
(* Properties of createAlleys                                              *)
(***************************************************************************)
\* C10: createAlleys terminates, never nesting without end, because every
\* recursive call gets a polygon of strictly smaller area than the polygon
\* of the call that makes it.
CE_C10 ==
    [][alleys.pc = "run" =>
         /\ alleys'.error # Some(StackOverflow)
         /\ \A i \in 1..(Len(alleys'.stack) - Len(alleys.stack) + 1) :
               alleys'.stack[i].kind = "call" =>
                  Square2(alleys'.stack[i].p) < Square2(alleys.stack[1].p)]_vars

\* C11: every polygon in the list createAlleys builds has at least 4
\* vertices; a triangle is never kept.
Thm_C11 ==
    \A i \in 1..Len(alleys.buildings) : Len(alleys.buildings[i]) >= 4

\* the triangular block was cut into a triangle and a quadrilateral, and
\* only the quadrilateral (which keeps the apex) was returned
Wit_C11 ==
    /\ alleys.pc = "done"
    /\ Len(alleys.buildings) = 1
    /\ <<20, 15>> \in Range(alleys.buildings[1])

(***************************************************************************)
(* Polygon.cut called on its own (src/geom/geom-utils.ts 528-588)          *)
(***************************************************************************)
CutPolygons ==
    Blocks \cup
    { << <<0, 0>>, <<40, 0>>, <<40, 20>>, <<30, 20>>,
         <<30, 10>>, <<10, 10>>, <<10, 20>>, <<0, 20>> >> }
CutPoints ==
    { <<0, 0>>, <<12, 0>>, <<20, 0>>, <<0, 10>>, <<0, 15>>,
      <<20, 20>>, <<12, 20>>, <<40, 15>>, <<40, 20>> }
CutGaps == {0, ALLEY}

CutInit ==
    \E poly \in CutPolygons, p1 \in CutPoints, p2 \in CutPoints,
       gap \in CutGaps :
        cutc = [poly |-> poly, p1 |-> p1, p2 |-> p2, gap |-> gap,
                this |-> poly, result |-> <<>>, pc |-> "call"]

\* poly.cut(p1, p2, gap); this is the receiver's vertex list afterwards:
\* cut reads it with slice() and new Polygon(), which copy (55-57)
CutCall ==
    /\ cutc.pc = "call"
    /\ cutc' = [cutc EXCEPT
                  !.result = Cut(cutc.poly, cutc.p1, cutc.p2, cutc.gap),
                  !.pc = "returned"]
    /\ UNCHANGED otherThanCut

InitCut ==
    /\ GenIdle /\ GraphIdle /\ WallIdle /\ AlleysIdle
    /\ CutInit /\ RndIdle /\ WardsIdle /\ TopoIdle /\ JuncIdle
    /\ HelpersIdle

NextCut == CutCall

SpecCut == InitCut /\ [][NextCut]_vars

(***************************************************************************)
(* Properties of Polygon.cut                                               *)
(***************************************************************************)
\* the point where the line through p1 and p2 meets the line of edge i, as
\* the fractions <<x numerator, y numerator, denominator>>; the edges the
\* line meets between their end points; the edges lying on the line
MeetsEdge(poly, p1, p2, i) ==
    LET dir == PointSubtract(p2, p1)
        t == IntersectLines(p1[1], p1[2], dir[1], dir[2],
                            Vertex(poly, i)[1], Vertex(poly, i)[2],
                            Vectori(poly, i)[1], Vectori(poly, i)[2])
    IN t # None /\ InUnit(t[1].y)

MeetingPoint(poly, p1, p2, i) ==
    LET dir == PointSubtract(p2, p1)
        v == Vertex(poly, i)
        e == Vectori(poly, i)
        d == dir[1] * e[2] - dir[2] * e[1]
        n2 == dir[2] * (v[1] - p1[1]) - dir[1] * (v[2] - p1[2])
    IN <<v[1] * d + e[1] * n2, v[2] * d + e[2] * n2, d>>

SamePoint(a, b) == a[1] * b[3] = b[1] * a[3] /\ a[2] * b[3] = b[2] * a[3]

EdgeOnLine(poly, p1, p2, i) ==
    LET dir == PointSubtract(p2, p1)
        v == Vertex(poly, i)
        e == Vectori(poly, i)
    IN /\ Cross(dir[1], dir[2], e[1], e[2]) = 0
       /\ Cross(dir[1], dir[2], v[1] - p1[1], v[2] - p1[2]) = 0

\* the number of places where the line crosses the boundary (-1: an edge
\* lies on the line, the places are not isolated)
CrossingPlaces(poly, p1, p2) ==
    LET E == 0..(Len(poly) - 1)
        met == {i \in E : MeetsEdge(poly, p1, p2, i)}
        Place(i) == {j \in met : SamePoint(MeetingPoint(poly, p1, p2, i),
                                           MeetingPoint(poly, p1, p2, j))}
    IN IF \E i \in E : EdgeOnLine(poly, p1, p2, i) THEN -1
       ELSE Cardinality({Place(i) : i \in met})

\* C12: cut returns two polygons exactly when the line through p1 and p2
\* crosses the boundary in exactly two places, and otherwise a single
\* polygon with the vertices of the original; the receiver keeps its
\* vertex list.
CE_C12 ==
    (cutc.pc = "returned" /\ cutc.p1 # cutc.p2) =>
        /\ Len(cutc.result) = 2
             <=> CrossingPlaces(cutc.poly, cutc.p1, cutc.p2) = 2
        /\ Len(cutc.result) # 2 => cutc.result = <<cutc.poly>>
        /\ cutc.this = cutc.poly

\* twice the most that rounding the two new vertices to 1/Scale can change
\* the area: a vertex put on edge e and moved by at most 1/2 in x and in y
\* changes twice the area by at most (|e.x| + |e.y|) / 2
RECURSIVE SumOver(_, _)
SumOver(S, f) ==
    IF S = {} THEN 0
    ELSE LET x == CHOOSE y \in S : TRUE IN f[x] + SumOver(S \ {x}, f)

RoundingSlack2(poly, p1, p2) ==
    LET E == 0..(Len(poly) - 1)
        met == {i \in E : MeetsEdge(poly, p1, p2, i)}
        span == [i \in E |-> Abs(Vectori(poly, i)[1]) + Abs(Vectori(poly, i)[2])]
    IN (SumOver(met, span) + 1) \div 2

AreasAddUp(c) ==
    Abs(Abs(Square2(c.result[1])) + Abs(Square2(c.result[2]))
        - Abs(Square2(c.poly)))
      <= RoundingSlack2(c.poly, c.p1, c.p2)

\* C13 as stated: whenever cut returns two polygons, their absolute areas
\* sum to the absolute area of the polygon that was cut (within tolerance).
CE_C13 ==
    (cutc.pc = "returned" /\ Len(cutc.result) = 2) => AreasAddUp(cutc)

\* C13 amended: whenever cut is called with gap = 0 and returns two
\* polygons, their absolute areas sum to the absolute area of the polygon
\* that was cut (within tolerance); with a gap the strip of that width
\* along the cut is peeled off both results and belongs to neither.
Thm_C13 ==
    (cutc.pc = "returned" /\ Len(cutc.result) = 2 /\ cutc.gap = 0)
        => AreasAddUp(cutc)

Wit_C13 ==
    /\ cutc.pc = "returned" /\ Len(cutc.result) = 2 /\ cutc.gap = 0
    /\ cutc.p1[1] # cutc.p2[1] /\ cutc.p1[2] # cutc.p2[2]
    /\ Abs(Square2(cutc.result[1])) > 0 /\ Abs(Square2(cutc.result[2])) > 0


(***************************************************************************)
(* Model.createWards (phase 5) with buildWardDistribution, minBy and the   *)
(* rateLocation functions of the ward classes.  The geometry of a town is  *)
(* kept as what the rating functions read from it: which patches border   *)
(* each other, the wall and the citadel, the distance of a patch to the    *)
(* centre and its area.                                                    *)
(***************************************************************************)
\* nPatches of the towns: in the smaller one the distribution outlasts the
\* patches, in the larger one the patches outlast the distribution
TownSizes == {6, 14}
SmallTown == CHOOSE n \in TownSizes : \A m \in TownSizes : n <= m
LargeTown == CHOOSE n \in TownSizes : \A m \in TownSizes : n >= m

NoWard == "null"
CustomRated ==
    {"Slum", "Merchant", "Patriciate", "Market", "Administration",
     "Military", "Cathedral"}

\* a rating is a fraction <<numerator, denominator>>; Infinity has denominator 0
RateInfinity == <<1, 0>>
Rate(x) == <<x, 1>>
RateLess(a, b) ==
    IF a[2] = 0 THEN FALSE
    ELSE IF b[2] = 0 THEN TRUE
    ELSE a[1] * b[2] < b[1] * a[2]

\* Math.round and Math.max on the non-negative values of the distribution
RoundPercent(n, percent) == (2 * n * percent + 100) \div 200
Max(a, b) == IF a >= b THEN a ELSE b
Repeat(x, k) == [i \in 1..k |-> x]

buildWardDistribution(params) ==
    LET n == params.nPatches
    IN  Repeat("Craftsmen", Max(3, RoundPercent(n, 46)))
        \o Repeat("Slum",
                  Max(1, RoundPercent(n, IF params.shantyNeeded THEN 22 ELSE 14)))
        \o Repeat("Merchant", Max(1, RoundPercent(n, 6)))
        \o Repeat("Patriciate", Max(0, RoundPercent(n, 6)))
        \o Repeat("Market", Max(0, RoundPercent(n, 6)))
        \o Repeat("Administration",
                  Max(0, RoundPercent(n, IF params.capitalNeeded THEN 8 ELSE 3)))
        \o <<"Military">>
        \o (IF params.templeNeeded THEN <<"Cathedral">> ELSE <<>>)
        \o (IF n >= 10 THEN <<"Park">> ELSE <<>>)

\* the towns: patches 1..nPatches are inner and sorted by distance from the
\* centre, patch nPatches + 1 lies outside; the first third of the inner
\* patches does not reach the wall; patch 1 borders patches 2..5
Borders(p, q) ==
    /\ p # q
    /\ \/ Abs(p - q) <= 1
       \/ p = 1 /\ q <= 5
       \/ q = 1 /\ p <= 5

Towns ==
    [nPatches : {SmallTown}, plazaNeeded : BOOLEAN,
     wallsNeeded : BOOLEAN, citadelNeeded : BOOLEAN,
     shantyNeeded : {FALSE}, capitalNeeded : BOOLEAN, templeNeeded : BOOLEAN]
    \cup
    [nPatches : {LargeTown}, plazaNeeded : {FALSE},
     wallsNeeded : {TRUE}, citadelNeeded : {FALSE},
     shantyNeeded : {FALSE}, capitalNeeded : {FALSE}, templeNeeded : {FALSE}]

Inner(t) == 1..t.nPatches
Plaza(t) == IF t.plazaNeeded THEN 1 ELSE 0      \* 0 stands for null
WallBorders(t, p) == t.wallsNeeded /\ p > t.nPatches \div 3
CitadelBorders(t, p) == t.citadelNeeded /\ p = t.nPatches
Distance(p) == p
PatchSquare(p) == 1 + (p % 3)
\* the patches of the one gate, as patchByVertex lists them
GatePatches(t) == <<t.nPatches - 1, t.nPatches, t.nPatches + 1>>

\* the static rateLocation of each ward class
rateLocation(cls, t, ward, patch) ==
    CASE cls = "Market" ->
            IF \E p \in Inner(t) : ward[p] = "Market" /\ Borders(p, patch)
            THEN RateInfinity
            ELSE IF Plaza(t) # 0
                 THEN <<PatchSquare(patch), PatchSquare(Plaza(t))>>
                 ELSE Rate(Distance(patch))
      [] cls = "Administration" ->
            IF Plaza(t) # 0 /\ Borders(patch, Plaza(t)) THEN Rate(0)
            ELSE Rate(Distance(patch))
      [] cls = "Patriciate" ->
            Rate(Cardinality({p \in DOMAIN ward :
                                 ward[p] = "Slum" /\ Borders(p, patch)})
                 - Cardinality({p \in DOMAIN ward :
                                 ward[p] = "Park" /\ Borders(p, patch)}))
      [] cls = "Slum" -> Rate(-Distance(patch))
      [] cls = "Merchant" -> Rate(Distance(patch))
      [] cls = "Cathedral" ->
            IF Plaza(t) # 0 /\ Borders(patch, Plaza(t))
            THEN <<-1, PatchSquare(patch)>>
            ELSE Rate(Distance(patch) * PatchSquare(patch))
      [] cls = "Military" ->
            IF CitadelBorders(t, patch) THEN Rate(0)
            ELSE IF WallBorders(t, patch) THEN Rate(1)
            ELSE IF ~t.citadelNeeded /\ ~t.wallsNeeded THEN Rate(0)
            ELSE RateInfinity

\* the rating createWards hands to minBy
PatchRate(cls, t, ward, patch) ==
    IF ward[patch] = NoWard THEN rateLocation(cls, t, ward, patch)
    ELSE RateInfinity

\* minBy: the first element with the least measure
RECURSIVE MinByFrom(_, _, _, _)
MinByFrom(a, f, i, result) ==
    IF i > Len(a) THEN result
    ELSE IF RateLess(f[a[i]], f[result]) THEN MinByFrom(a, f, i + 1, a[i])
    ELSE MinByFrom(a, f, i + 1, result)

minBy(a, f) == MinByFrom(a, f, 2, a[1])

\* indexOf, counted from 0, -1 when absent
indexOf(a, x) ==
    IF x \in Range(a)
    THEN (CHOOSE i \in 1..Len(a) : a[i] = x /\ \A j \in 1..(i - 1) : a[j] # x) - 1
    ELSE -1

RemoveFrom(a, x) ==
    IF indexOf(a, x) # -1 THEN Splice(a, indexOf(a, x), 1) ELSE a

\* the patches the do-while around randomElement can end with (the first
\* definition draws from all inner patches)
RandomPatchesOfInner(w) == Inner(w.town)
RandomPatches(w) ==
    {p \in Range(w.unassigned) :
        ~(w.ward[p] # NoWard
          /\ \E q \in Range(w.unassigned) : w.ward[q] = NoWard)}

\* the patch one turn of the assignment loop gives the class cls to
BestPatches(w, cls) ==
    IF cls \notin CustomRated THEN RandomPatches(w)
    ELSE {minBy(w.unassigned,
                [p \in DOMAIN w.ward |-> PatchRate(cls, w.town, w.ward, p)])}

WardsInit ==
    \E t \in Towns :
        wards = [town |-> t,
                 ward |-> [p \in 1..(t.nPatches + 1) |-> NoWard],
                 withinCity |-> Inner(t),
                 unassigned |-> <<>>, wards |-> <<>>,
                 gate |-> 0, turns |-> 0, atLoop |-> 0,
                 last |-> None, pc |-> "createWards"]

\* model.ts 338-345: the plaza gets its Market
PlazaWard ==
    /\ wards # <<>> /\ wards.pc = "createWards"
    /\ LET t == wards.town
           all == SetToSeq(Inner(t))
       IN  wards' = [wards EXCEPT
               !.ward = IF Plaza(t) # 0
                        THEN [@ EXCEPT ![Plaza(t)] = "Market"] ELSE @,
               !.unassigned = IF Plaza(t) # 0 THEN RemoveFrom(all, Plaza(t))
                              ELSE all,
               !.gate = 1,
               !.pc = "gates"]
    /\ UNCHANGED otherThanWards


\* model.ts 347-357: one patch of the gate, "Assign inner city gate wards"
GateWardStep ==
    /\ wards # <<>> /\ wards.pc = "gates"
    /\ wards.gate <= Len(GatePatches(wards.town))
    /\ \E bool \in BOOLEAN :
        LET patch == GatePatches(wards.town)[wards.gate]
            take == patch \in wards.withinCity /\ wards.ward[patch] = NoWard
                    /\ bool
        IN  wards' = [wards EXCEPT
                !.ward = IF take THEN [@ EXCEPT ![patch] = "GateWard"] ELSE @,
                !.unassigned = IF take THEN RemoveFrom(@, patch) ELSE @,
                !.gate = @ + 1]
    /\ UNCHANGED otherThanWards

\* model.ts 361-367: "Shuffle ~10% of elements"
Swap(a, index) ==
    [a EXCEPT ![index + 1] = a[index + 2], ![index + 2] = a[index + 1]]

RECURSIVE Shuffled(_, _)
Shuffled(a, count) ==
    IF count = 0 THEN {a}
    ELSE UNION {Shuffled(Swap(a, index), count - 1) :
                    index \in 0..(Len(a) - 2)}

\* model.ts 359-367: the distribution list, shuffled
Distribute ==
    /\ wards # <<>> /\ wards.pc = "gates"
    /\ wards.gate > Len(GatePatches(wards.town))
    /\ LET list == buildWardDistribution(wards.town)
       IN  \E shuffled \in Shuffled(list, Len(list) \div 10) :
               wards' = [wards EXCEPT !.wards = shuffled,
                                      !.atLoop = Len(wards.unassigned),
                                      !.pc = "assign"]
    /\ UNCHANGED otherThanWards

\* model.ts 370-391: one turn of "Assign inner city wards"
AssignWard ==
    /\ wards # <<>> /\ wards.pc = "assign"
    /\ Len(wards.unassigned) > 0
    /\ LET wardClass == IF Len(wards.wards) > 0 THEN Head(wards.wards)
                        ELSE "Slum"
       IN  \E bestPatch \in BestPatches(wards, wardClass) :
               wards' = [wards EXCEPT
                   !.wards = Shift(@),
                   !.ward = [@ EXCEPT ![bestPatch] = wardClass],
                   !.unassigned = RemoveFrom(@, bestPatch),
                   !.turns = @ + 1,
                   !.last = Some([wardClass |-> wardClass,
                                  bestPatch |-> bestPatch,
                                  rated |-> wardClass \in CustomRated,
                                  rate |-> IF wardClass \in CustomRated
                                           THEN PatchRate(wardClass, wards.town,
                                                          wards.ward, bestPatch)
                                           ELSE Rate(0)])]
    /\ UNCHANGED otherThanWards

\* model.ts 393-419: outskirts and countryside, once the loop has ended
Countryside ==
    /\ wards # <<>> /\ wards.pc = "assign"
    /\ Len(wards.unassigned) = 0
    /\ \E bool \in BOOLEAN, farms \in SUBSET {wards.town.nPatches + 1} :
        LET t == wards.town
            atGate == IF t.wallsNeeded /\ ~bool
                      THEN {p \in Range(GatePatches(t)) : wards.ward[p] = NoWard}
                      ELSE {}
            within == wards.withinCity \cup atGate
            ward1 == [p \in DOMAIN wards.ward |->
                         IF p \in atGate THEN "GateWard" ELSE wards.ward[p]]
        IN  wards' = [wards EXCEPT
                !.withinCity = within,
                !.ward = [p \in DOMAIN wards.ward |->
                             IF p \notin within /\ ward1[p] = NoWard
                             THEN IF p \in farms THEN "Farm" ELSE "Ward"
                             ELSE ward1[p]],
                !.pc = "done"]
    /\ UNCHANGED otherThanWards

InitWards ==
    /\ WardsInit
    /\ GenIdle /\ GraphIdle /\ WallIdle /\ AlleysIdle
    /\ CutIdle /\ RndIdle /\ TopoIdle /\ JuncIdle
    /\ HelpersIdle

NextWards == PlazaWard \/ GateWardStep \/ Distribute \/ AssignWard \/ Countryside

SpecWards == InitWards /\ [][NextWards]_vars


\* C14: every assignment of createWards goes to a patch without a ward; one
\* turn of the assignment loop gives one ward to one patch of the unassigned
\* list and takes that patch off the list; the loop ends after as many
\* turns as there were unassigned patches (Slum once the distribution is
\* used up); afterwards every inner patch has a ward and the plaza, when
\* there is one, has its Market.
Thm_C14 ==
    [][wards # <<>> =>
        /\ \A p \in DOMAIN wards.ward :
               wards.ward[p] # NoWard => wards'.ward[p] = wards.ward[p]
        /\ (wards.pc = "assign" /\ wards'.pc = "assign") =>
               LET given == {p \in DOMAIN wards.ward :
                                wards'.ward[p] # wards.ward[p]}
               IN  /\ Cardinality(given) = 1
                   /\ given \subseteq Range(wards.unassigned)
                   /\ Range(wards'.unassigned) = Range(wards.unassigned) \ given
                   /\ Len(wards'.unassigned) = Len(wards.unassigned) - 1
                   /\ wards'.turns = wards.turns + 1
                   /\ wards.wards = <<>> =>
                          \A p \in given : wards'.ward[p] = "Slum"
        /\ wards'.pc = "done" =>
               /\ wards'.turns = wards'.atLoop
               /\ \A p \in Inner(wards'.town) : wards'.ward[p] # NoWard
               /\ Plaza(wards'.town) # 0 =>
                      wards'.ward[Plaza(wards'.town)] = "Market"
    ]_vars

Wit_C14 ==
    /\ wards # <<>> /\ wards.pc = "done"
    /\ wards.turns = wards.town.nPatches /\ wards.wards = <<>>
    /\ wards.last # None /\ wards.last[1].wardClass = "Slum"
    /\ Cardinality({p \in Inner(wards.town) : wards.ward[p] = "Slum"}) = 3
    /\ \E p \in Inner(wards.town) : wards.ward[p] = "Military"


\* C15: a ward class with a rateLocation of its own is never given to a
\* patch that this rateLocation rates Infinity.
CE_C15 ==
    (wards # <<>> /\ wards.last # None /\ wards.last[1].rated)
        => wards.last[1].rate # RateInfinity


(***************************************************************************)
(* Topology (src/src/generator/topology.ts).  A Point is its identity, a   *)
(* number; a Node is the number graph.add() gave it, its links the entry   *)
(* of that number in a sequence of Maps.                                   *)
(***************************************************************************)
\* the points of the towns: 1 2 3 9 4 on the border, 7 inside, 5 6 8 in the
\* countryside; TopoXY[v] is the position of point v
TopoPoints == 1..21
TopoXY ==
    << <<0, -4>>, <<10, -8>>, <<12, 8>>, <<-10, -8>>, <<-6, -22>>,
       <<6, -22>>, <<0, 1>>, <<0, 30>>, <<0, 12>>,
       <<-10, -10>>, <<0, -12>>, <<10, -10>>, <<20, 20>>, <<-20, 20>>,
       <<0, 14>>, <<0, -16>>, <<-30, -16>>, <<30, -16>>, <<0, 40>>,
       <<0, -30>>, <<0, -60>>,
       <<0, 0>>, <<10, 0>>, <<0, 10>>, <<-10, 0>>, <<0, -10>>,
       <<20, -20>>, <<24, 10>>, <<-20, 20>>, <<-20, -20>>,
       <<100, 0>>, <<110, 0>>, <<100, 10>> >>

SqDistance(a, b) ==
    (a[1] - b[1]) * (a[1] - b[1]) + (a[2] - b[2]) * (a[2] - b[2])

\* Point.distance of two points of the town
TopoDistance(v0, v1) == ISqrt(SqDistance(TopoXY[v0], TopoXY[v1]))

\* three towns with the border 1 2 3 9 4: five inner patches around the
\* point 7; the same with one countryside patch lying against both border
\* edges of point 1; two inner patches that meet along the edge 2 4.  A
\* fourth town has the border 10 11 12 13 14 and five inner patches around
\* the point 15, its plaza at the border; from the gate 10 the way to the
\* plaza is shorter through the countryside point 16 than through 15, and
\* the approach roads of the gates 10 and 12 both come from the point 21.  The
\* gates of a wall are entrances that are not neighbours, and no vertex of
\* the citadel.
CitadelShape == <<4, 9, 3, 8>>
BorderShape == <<1, 2, 3, 9, 4>>
TownLayouts ==
    {[inner |-> << <<1, 2, 7>>, <<2, 3, 7>>, <<3, 9, 7>>, <<9, 4, 7>>, <<4, 1, 7>> >>,
      outer |-> << <<2, 1, 5, 6>>, <<1, 4, 5>>, <<3, 2, 6, 8>> >>,
      border |-> BorderShape, citadel |-> CitadelShape, castleGate |-> 9,
      citadels |-> BOOLEAN,
      gates |-> {<<1>>, <<2>>, <<1, 3>>}],
     [inner |-> << <<1, 2, 7>>, <<2, 3, 7>>, <<3, 9, 7>>, <<9, 4, 7>>, <<4, 1, 7>> >>,
      outer |-> << <<2, 1, 4>>, <<2, 4, 5, 6>>, <<3, 2, 6, 8>> >>,
      border |-> BorderShape, citadel |-> CitadelShape, castleGate |-> 9,
      citadels |-> BOOLEAN,
      gates |-> {<<1>>}],
     [inner |-> << <<1, 2, 4>>, <<2, 3, 9, 4>> >>,
      outer |-> << <<2, 1, 5, 6>>, <<1, 4, 5>>, <<3, 2, 6, 8>> >>,
      border |-> BorderShape, citadel |-> CitadelShape, castleGate |-> 9,
      citadels |-> BOOLEAN,
      gates |-> {<<2>>, <<4>>}],
     [inner |-> << <<12, 13, 15>>, <<10, 11, 15>>, <<11, 12, 15>>,
                   <<13, 14, 15>>, <<14, 10, 15>> >>,
      outer |-> << <<11, 10, 16>>, <<12, 11, 16>>, <<10, 14, 17, 20, 16>>,
                   <<13, 12, 18>>, <<12, 16, 20, 18>>, <<17, 21, 20>>,
                   <<20, 21, 18>> >>,
      border |-> <<10, 11, 12, 13, 14>>, citadel |-> <<14, 13, 19>>,
      castleGate |-> 19, citadels |-> {FALSE},
      gates |-> {<<10>>, <<10, 12>>}]}

TopoPatch(shape, withinCity) == [shape |-> shape, withinCity |-> withinCity]

\* the first of the vertices nearest to a position: minBy with a distance
RECURSIVE NearestFrom(_, _, _, _)
NearestFrom(vs, xy, i, result) ==
    IF i > Len(vs) THEN result
    ELSE IF SqDistance(TopoXY[vs[i]], xy) < SqDistance(TopoXY[result], xy)
         THEN NearestFrom(vs, xy, i + 1, vs[i])
         ELSE NearestFrom(vs, xy, i + 1, result)

Nearest(vs, xy) == NearestFrom(vs, xy, 2, vs[1])

\* what the Topology constructor and buildStreets read of the model
TopoModels ==
    UNION {
      {m \in
         {[patches |-> [i \in 1..Len(l.inner) |-> TopoPatch(l.inner[i], TRUE)]
                       \o <<TopoPatch(l.citadel, citadelNeeded)>>
                       \o [i \in 1..Len(l.outer) |-> TopoPatch(l.outer[i], FALSE)],
           plaza |-> IF plazaNeeded THEN Some(l.inner[1]) ELSE None,
           center |-> Nearest(l.inner[1], <<0, 0>>),
           citadel |-> IF citadelNeeded THEN Some(l.citadel) ELSE None,
           wall |-> IF wallsNeeded THEN Some(l.border) ELSE None,
           border |-> l.border,
           borderGates |-> wallGates,
           gates |-> wallGates
                     \o (IF citadelNeeded THEN <<l.castleGate>> ELSE <<>>)] :
             citadelNeeded \in l.citadels, wallsNeeded \in BOOLEAN,
             plazaNeeded \in BOOLEAN, wallGates \in l.gates} :
         m.citadel # None => Range(m.borderGates) \cap Range(m.citadel[1]) = {}}
      : l \in TownLayouts}

\* difference(a, b)
difference(a, b) == SelectSeq(a, LAMBDA el : el \notin Range(b))

\* "Build blocked list: citadel vertices + wall vertices, minus gates" (the
\* first definition blocks nothing)
BlockedNone(m) == <<>>
Blocked(m) ==
    difference((IF m.citadel # None THEN m.citadel[1] ELSE <<>>)
               \o (IF m.wall # None THEN m.wall[1] ELSE <<>>),
               m.gates)

addUnique(a, el) == IF el \in Range(a) THEN a ELSE Append(a, el)

\* processPoint: the node of v is made when v is seen first; the result is
\* null (0 here) for a blocked point
WithNode(st, v) ==
    IF MapHas(st.pt2node, v) THEN st
    ELSE LET n == Len(st.links) + 1
         IN [st EXCEPT !.pt2node = Append(@, <<v, n>>),
                       !.node2pt = Append(@, <<n, v>>),
                       !.links = Append(@, <<>>)]

processPoint(st, v) ==
    IF v \in Range(st.blocked) THEN 0 ELSE MapGet(st.pt2node, v)

\* topology.ts 45-63: the body of the loop over the edges of a patch
TopoEdge(st, p, v0, v1) ==
    LET s1 == WithNode(WithNode(st, v0), v1)
        n0 == processPoint(s1, v0)
        n1 == processPoint(s1, v1)
        list0 == n0 # 0 /\ v0 \notin Range(s1.border)
        list1 == n1 # 0 /\ v1 \notin Range(s1.border)
        in1 == IF list0 /\ p.withinCity THEN addUnique(s1.inner, n0) ELSE s1.inner
        in2 == IF list1 /\ p.withinCity THEN addUnique(in1, n1) ELSE in1
        out1 == IF list0 /\ ~p.withinCity THEN addUnique(s1.outer, n0) ELSE s1.outer
        out2 == IF list1 /\ ~p.withinCity THEN addUnique(out1, n1) ELSE out1
    IN [s1 EXCEPT !.inner = in2, !.outer = out2,
                  !.links = IF n0 # 0 /\ n1 # 0
                            THEN LinkNodes(@, n0, n1, TopoDistance(v0, v1), TRUE)
                            ELSE @]

RECURSIVE TopoPatchEdges(_, _, _)
TopoPatchEdges(st, p, i) ==
    IF i > Len(p.shape) THEN st
    ELSE TopoPatchEdges(
             TopoEdge(st, p,
                      p.shape[IF i = 1 THEN Len(p.shape) ELSE i - 1], p.shape[i]),
             p, i + 1)

\* topology.ts 23-36: the fields before the loop over model.patches
NewTopologyOf(m) ==
    [blocked |-> Blocked(m), border |-> m.border,
     pt2node |-> <<>>, node2pt |-> <<>>, links |-> <<>>,
     inner |-> <<>>, outer |-> <<>>]

\* Topology.buildPath(from, to, exclude): null is None
\* (TopologyBuildPathAnywhere: the exclusion list is not handed to aStar)
TopologyBuildPathAnywhere(t, from, to, exclude) ==
    IF ~MapHas(t.pt2node, from) \/ ~MapHas(t.pt2node, to) THEN None
    ELSE LET found == AStar(t.links, MapGet(t.pt2node, from),
                            MapGet(t.pt2node, to), <<>>)
         IN IF found = None THEN None
            ELSE Some([i \in 1..Len(found[1]) |-> MapGet(t.node2pt, found[1][i])])
TopologyBuildPath(t, from, to, exclude) ==
    IF ~MapHas(t.pt2node, from) \/ ~MapHas(t.pt2node, to) THEN None
    ELSE LET found == AStar(t.links, MapGet(t.pt2node, from),
                            MapGet(t.pt2node, to), exclude)
         IN IF found = None THEN None
            ELSE Some([i \in 1..Len(found[1]) |-> MapGet(t.node2pt, found[1][i])])

\* model.ts 239-270: the body of the loop over the gates, for the k-th gate;
\* b holds streets, roads and the error of buildStreets
\* (StreetForSkipping: a gate without a street is passed over)
StreetForSkipping(m, t, b, k) ==
    LET gate == m.gates[k]
        end == IF m.plaza # None THEN Nearest(m.plaza[1], TopoXY[gate])
               ELSE m.center
        street == TopologyBuildPath(t, gate, end, t.outer)
        dir == PointNorm(TopoXY[gate], 1000)
        start == Nearest([i \in 1..Len(t.node2pt) |-> t.node2pt[i][2]], dir)
        road == TopologyBuildPath(t, start, gate, t.inner)
    IN  IF street = None THEN b
        ELSE [b EXCEPT
                 !.streets = Append(@, street[1]),
                 !.roads = IF gate \in Range(m.borderGates) /\ road # None
                           THEN Append(@, road[1]) ELSE @]
StreetFor(m, t, b, k) ==
    LET gate == m.gates[k]
        end == IF m.plaza # None THEN Nearest(m.plaza[1], TopoXY[gate])
               ELSE m.center
        street == TopologyBuildPath(t, gate, end, t.outer)
        dir == PointNorm(TopoXY[gate], 1000)
        start == Nearest([i \in 1..Len(t.node2pt) |-> t.node2pt[i][2]], dir)
        road == TopologyBuildPath(t, start, gate, t.inner)
    IN  IF street = None THEN [b EXCEPT !.error = NoStreet]
        ELSE [b EXCEPT
                 !.streets = Append(@, street[1]),
                 !.roads = IF gate \in Range(m.borderGates) /\ road # None
                           THEN Append(@, road[1]) ELSE @]

\* cut2segments: the segments of a street that are not along the plaza and
\* not yet in the list
RECURSIVE cut2segments(_, _, _, _)
cut2segments(m, street, i, segments) ==
    IF i > Len(street) THEN segments
    ELSE LET v0 == street[i - 1]
             v1 == street[i]
             alongPlaza == m.plaza # None /\ v0 \in Range(m.plaza[1])
                           /\ v1 \in Range(m.plaza[1])
         IN cut2segments(m, street, i + 1,
                IF alongPlaza \/ <<v0, v1>> \in Range(segments) THEN segments
                ELSE Append(segments, <<v0, v1>>))

RECURSIVE CutAll(_, _, _, _)
CutAll(m, streets, k, segments) ==
    IF k > Len(streets) THEN segments
    ELSE CutAll(m, streets, k + 1, cut2segments(m, streets[k], 2, segments))

\* the first artery a segment attaches to, 0 when there is none
AttachTo(arteries, seg) ==
    IF \E j \in 1..Len(arteries) :
           arteries[j][1] = seg[2] \/ arteries[j][Len(arteries[j])] = seg[1]
    THEN CHOOSE j \in 1..Len(arteries) :
           /\ arteries[j][1] = seg[2] \/ arteries[j][Len(arteries[j])] = seg[1]
           /\ \A i \in 1..(j - 1) :
                  ~(arteries[i][1] = seg[2] \/ arteries[i][Len(arteries[i])] = seg[1])
    ELSE 0

\* model.ts 312-333: the arteries stitched from the segments, last one first
RECURSIVE Stitch(_, _)
Stitch(segments, arteries) ==
    IF segments = <<>> THEN arteries
    ELSE LET seg == segments[Len(segments)]
             j == AttachTo(arteries, seg)
         IN Stitch(Pop(segments),
                IF j = 0 THEN Append(arteries, <<seg[1], seg[2]>>)
                ELSE IF arteries[j][1] = seg[2]
                     THEN [arteries EXCEPT ![j] = <<seg[1]>> \o @]
                     ELSE [arteries EXCEPT ![j] = Append(@, seg[2])])

tidyUpRoadsOfStreets(m, streets, roads) ==
    Stitch(CutAll(m, streets, 1, <<>>), <<>>)
tidyUpRoads(m, streets, roads) ==
    Stitch(CutAll(m, roads, 1, CutAll(m, streets, 1, <<>>)), <<>>)

TopoInit ==
    \E m \in TopoModels :
        topo = [model |-> m, topology |-> None, patch |-> 0, from |-> 0, to |-> 0,
                exclude |-> <<>>, path |-> None, gate |-> 0,
                build |-> [streets |-> <<>>, roads |-> <<>>, error |-> ""],
                arteries |-> <<>>, pc |-> "model"]

NewTopology ==
    /\ topo # <<>> /\ topo.pc = "model"
    /\ topo' = [topo EXCEPT !.topology = Some(NewTopologyOf(topo.model)),
                            !.patch = 1, !.pc = "patches"]
    /\ UNCHANGED otherThanTopo

\* topology.ts 38-64: one patch of the constructor's loop
TopologyPatch ==
    /\ topo # <<>> /\ topo.pc = "patches"
    /\ topo' = [topo EXCEPT
           !.topology = Some(TopoPatchEdges(topo.topology[1],
                                            topo.model.patches[topo.patch], 1)),
           !.patch = @ + 1,
           !.pc = IF topo.patch = Len(topo.model.patches) THEN "built"
                  ELSE "patches"]
    /\ UNCHANGED otherThanTopo

BuildPath ==
    /\ topo # <<>> /\ topo.pc = "built"
    /\ \E from \in TopoPoints, to \in TopoPoints,
          exclude \in {<<>>, topo.topology[1].inner, topo.topology[1].outer} :
        topo' = [topo EXCEPT
                    !.from = from, !.to = to, !.exclude = exclude,
                    !.path = TopologyBuildPath(topo.topology[1], from, to, exclude),
                    !.pc = "path"]
    /\ UNCHANGED otherThanTopo

\* model.ts 239-270: buildStreets for the next gate; the error ends the phase
BuildStreet ==
    /\ topo # <<>> /\ topo.pc \in {"built", "gates"}
    /\ topo.gate < Len(topo.model.gates)
    /\ LET b == StreetFor(topo.model, topo.topology[1], topo.build, topo.gate + 1)
       IN topo' = [topo EXCEPT !.build = b, !.gate = @ + 1,
                               !.pc = IF b.error # "" THEN "error" ELSE "gates"]
    /\ UNCHANGED otherThanTopo

\* model.ts 272: tidyUpRoads, once every gate has its street
TidyUpRoads ==
    /\ topo # <<>> /\ topo.pc = "gates"
    /\ topo.gate = Len(topo.model.gates)
    /\ topo' = [topo EXCEPT
           !.arteries = tidyUpRoads(topo.model, topo.build.streets,
                                    topo.build.roads),
           !.pc = "streets"]
    /\ UNCHANGED otherThanTopo

InitTopo ==
    /\ TopoInit
    /\ GenIdle /\ GraphIdle /\ WallIdle /\ AlleysIdle
    /\ CutIdle /\ RndIdle /\ WardsIdle /\ JuncIdle
    /\ HelpersIdle

NextTopo ==
    NewTopology \/ TopologyPatch \/ BuildPath \/ BuildStreet \/ TidyUpRoads

SpecTopo == InitTopo /\ [][NextTopo]_vars

\* the wall and citadel vertices of the model that are not gates
FortVertices(m) ==
    ((IF m.citadel # None THEN Range(m.citadel[1]) ELSE {})
     \cup (IF m.wall # None THEN Range(m.wall[1]) ELSE {})) \ Range(m.gates)

Linked(t, v0, v1) ==
    /\ MapHas(t.pt2node, v0) /\ MapHas(t.pt2node, v1)
    /\ MapHas(t.links[MapGet(t.pt2node, v0)], MapGet(t.pt2node, v1))

PatchEdge(m, v0, v1) ==
    \E k \in 1..Len(m.patches) :
        LET s == m.patches[k].shape
        IN \E i \in 1..Len(s) :
               {s[i], s[(i % Len(s)) + 1]} = {v0, v1}

\* C16: in the Topology graph the node of a wall or citadel vertex that is
\* not a gate has no links, and a path buildPath returns between two
\* different points holds no such vertex; a gate has its node linked along
\* every patch edge to a point that is not blocked, and buildPath finds a
\* path between a gate and each such point.
Thm_C16 ==
    (topo # <<>> /\ topo.pc \in {"built", "path"}) =>
        LET m == topo.model
            t == topo.topology[1]
        IN  /\ \A v \in FortVertices(m), u \in TopoPoints :
                   ~Linked(t, v, u) /\ ~Linked(t, u, v)
            /\ (topo.pc = "path" /\ topo.from # topo.to /\ topo.path # None) =>
                   Range(topo.path[1]) \cap FortVertices(m) = {}
            /\ \A g \in Range(m.gates), u \in TopoPoints \ FortVertices(m) :
                   PatchEdge(m, g, u) => Linked(t, g, u) /\ Linked(t, u, g)
            /\ (topo.pc = "path" /\ topo.exclude = <<>>
                /\ {topo.from, topo.to} \cap Range(m.gates) # {}
                /\ {topo.from, topo.to} \cap FortVertices(m) = {}
                /\ PatchEdge(m, topo.from, topo.to)) => topo.path # None

Wit_C16 ==
    /\ topo # <<>> /\ topo.pc = "path"
    /\ topo.model.wall # None /\ topo.model.citadel # None
    /\ 2 \in FortVertices(topo.model)
    /\ topo.from = 6 /\ topo.to = 7 /\ topo.exclude = <<>>
    /\ topo.path # None /\ Len(topo.path[1]) = 4
    /\ 1 \in Range(topo.path[1])


(***************************************************************************)
(* SeededRandom on the numbers the source computes with.  The seed is an   *)
(* IEEE double: seed * G is rounded to 53 significant bits before % N is   *)
(* taken.  A value is kept as its sign and its digits to the base 2^15,    *)
(* lowest digit first, so that every step stays inside the 32-bit range.   *)
(***************************************************************************)
MaxCalls == 3         \* most calls of float() and int() on one generator

Limb == 2 ^ 15

RECURSIVE ToLimbs(_)
ToLimbs(n) == IF n = 0 THEN <<>> ELSE <<n % Limb>> \o ToLimbs(n \div Limb)

\* the value of digits that stay below 2^31
RECURSIVE LimbsValue(_)
LimbsValue(ls) == IF ls = <<>> THEN 0 ELSE Head(ls) + Limb * LimbsValue(Tail(ls))

\* digits * G + carry
RECURSIVE TimesG(_, _)
TimesG(ls, carry) ==
    IF ls = <<>> THEN ToLimbs(carry)
    ELSE LET t == Head(ls) * G + carry
         IN <<t % Limb>> \o TimesG(Tail(ls), t \div Limb)

RECURSIVE Bits(_)
Bits(x) == IF x = 0 THEN 0 ELSE 1 + Bits(x \div 2)

BitLength(ls) ==
    IF ls = <<>> THEN 0 ELSE 15 * (Len(ls) - 1) + Bits(ls[Len(ls)])

\* digits + carry
RECURSIVE PlusCarry(_, _)
PlusCarry(ls, carry) ==
    IF carry = 0 THEN ls
    ELSE IF ls = <<>> THEN ToLimbs(carry)
    ELSE LET t == Head(ls) + carry
         IN <<t % Limb>> \o PlusCarry(Tail(ls), t \div Limb)

\* the nearest integer with the given number of significant bits, a tie
\* going to the even mantissa; fewer than 15 bits are dropped
RoundToBits(ls, bits) ==
    LET drop == BitLength(ls) - bits
    IN IF drop <= 0 THEN ls
       ELSE LET unit == 2 ^ drop
                rest == ls[1] % unit
                odd == (ls[1] \div unit) % 2 = 1
                up == 2 * rest > unit \/ (2 * rest = unit /\ odd)
            IN PlusCarry([ls EXCEPT ![1] = @ - rest], IF up THEN unit ELSE 0)

\* the double nearest to an integer: 53 significant bits
RoundToDouble(ls) == RoundToBits(ls, 53)

\* a * 2^15 mod N for 0 <= a < N: 2^31 = 1 (mod N)
TimesLimbModN(a) == (((a % (2 ^ 16)) * Limb) + a \div (2 ^ 16)) % N

PlusModN(a, b) == IF a >= N - b THEN a - (N - b) ELSE a + b

\* digits % N
RECURSIVE LimbsModN(_, _, _)
LimbsModN(ls, i, acc) ==
    IF i = 0 THEN acc
    ELSE LimbsModN(ls, i - 1, PlusModN(TimesLimbModN(acc), ls[i]))

ModN(ls) == LimbsModN(ls, Len(ls), 0)

\* the seeds tried: -5, 0, 1, 42, 456, N - 1, N and 2^38 + 1
RndSeeds ==
    {[neg |-> TRUE, limbs |-> ToLimbs(5)]}
    \cup {[neg |-> FALSE, limbs |-> ToLimbs(s)] : s \in {0, 1, 42, 456, N - 1, N}}
    \cup {[neg |-> FALSE, limbs |-> <<1, 0, 256>>]}

\* constructor: "if (this.seed <= 0) this.seed = 1"
ConstructSeed(seed) ==
    IF seed.neg \/ seed.limbs = <<>> THEN ToLimbs(1) ELSE seed.limbs

\* next(): this.seed = (this.seed * G) % N
next(limbs) == ToLimbs(ModN(RoundToDouble(TimesG(limbs, 0))))

\* floor(seed * k / N) for 0 <= seed < N and a small k >= 0, by adding seed
\* k times and counting the times N is passed
RECURSIVE TimesOverN(_, _, _, _)
TimesOverN(seed, k, whole, rest) ==
    IF k = 0 THEN whole
    ELSE IF rest >= N - seed
         THEN TimesOverN(seed, k - 1, whole + 1, rest - (N - seed))
         ELSE TimesOverN(seed, k - 1, whole, rest + seed)

\* Math.floor(min + (seed / N) * (max - min)) with the seed next() returned;
\* for the small ranges tried here the rounding of the division, of the
\* product and of the sum cannot carry the value over an integer
IntOf(seed, min, max) == min + TimesOverN(seed, max - min, 0, 0)

IntRanges == {<<0, 1>>, <<0, 3>>, <<5, 15>>, <<-3, 2>>}

RndInit ==
    \E seed \in RndSeeds :
        rnd = [given |-> seed, seed |-> ConstructSeed(seed), calls |-> 0,
               op |-> "new", min |-> 0, max |-> 0, result |-> <<0, 1>>]

\* float(): the result is the fraction next() / N
FloatCall ==
    /\ rnd # <<>> /\ rnd.calls < MaxCalls
    /\ LET s == next(rnd.seed)
       IN rnd' = [rnd EXCEPT !.seed = s, !.calls = @ + 1, !.op = "float",
                             !.result = <<LimbsValue(s), N>>]
    /\ UNCHANGED otherThanRnd

\* int(min, max): the result is the fraction result / 1
IntCall ==
    /\ rnd # <<>> /\ rnd.calls < MaxCalls
    /\ \E range \in IntRanges :
        LET s == next(rnd.seed)
        IN rnd' = [rnd EXCEPT
                      !.seed = s, !.calls = @ + 1, !.op = "int",
                      !.min = range[1], !.max = range[2],
                      !.result = <<IntOf(LimbsValue(s), range[1], range[2]), 1>>]
    /\ UNCHANGED otherThanRnd

InitRandom ==
    /\ RndInit
    /\ GenIdle /\ GraphIdle /\ WallIdle /\ AlleysIdle
    /\ CutIdle /\ WardsIdle /\ TopoIdle /\ JuncIdle
    /\ HelpersIdle

NextRandom == FloatCall \/ IntCall

SpecRandom == InitRandom /\ [][NextRandom]_vars

\* what float() and int() may return
ResultInRange(r) ==
    /\ r.op = "float" => 0 <= r.result[1] /\ r.result[1] < r.result[2]
    /\ r.op = "int" => r.result[2] = 1 /\ r.min <= r.result[1]
                       /\ r.result[1] < r.max

\* the step of the generator in exact arithmetic
LcgStep(before, after) == LimbsValue(after) = MulModGN(ModN(before))

\* C17 as stated: for every seed each call advances the state by
\* state' = (state * 48271) mod 2147483647, every float() lies in [0, 1)
\* and every int(min, max) in [min, max).
CE_C17 ==
    [][(rnd # <<>> /\ rnd'.calls = rnd.calls + 1) =>
          LcgStep(rnd.seed, rnd'.seed) /\ ResultInRange(rnd')]_vars


StreetEnd(m, gate) ==
    IF m.plaza # None THEN Nearest(m.plaza[1], TopoXY[gate]) ELSE m.center

NoRoute(m, t, k) ==
    TopologyBuildPath(t, m.gates[k], StreetEnd(m, m.gates[k]), t.outer) = None

NoApproach(m, t, k) ==
    LET gate == m.gates[k]
        start == Nearest([i \in 1..Len(t.node2pt) |-> t.node2pt[i][2]],
                         PointNorm(TopoXY[gate], 1000))
    IN  TopologyBuildPath(t, start, gate, t.inner) = None

\* C20: buildStreets fails with 'Unable to build a street!' at the first gate
\* that has no route to its target, and then no artery has been built; while
\* it has not failed, every gate handled so far has exactly one street, which
\* ends at that gate, so that after a successful run there is one street per
\* gate; a border gate without an approach road adds no road and no error.
Thm_C20 ==
    (topo # <<>> /\ topo.pc \in {"gates", "error", "streets"}) =>
        LET m == topo.model
            t == topo.topology[1]
            b == topo.build
        IN  /\ (topo.pc = "error") <=> (b.error = NoStreet)
            /\ (topo.pc = "error") <=> NoRoute(m, t, topo.gate)
            /\ topo.pc = "error" =>
                   /\ topo.arteries = <<>>
                   /\ Len(b.streets) = topo.gate - 1
            /\ \A k \in 1..(topo.gate - 1) : ~NoRoute(m, t, k)
            /\ topo.pc # "error" =>
                   /\ Len(b.streets) = topo.gate
                   /\ \A k \in 1..topo.gate :
                          b.streets[k][Len(b.streets[k])] = m.gates[k]
            /\ topo.pc = "streets" => Len(b.streets) = Len(m.gates)
            /\ Len(b.roads) =
                   Cardinality({k \in 1..Len(b.streets) :
                                   /\ m.gates[k] \in Range(m.borderGates)
                                   /\ ~NoApproach(m, t, k)})

Wit_C20 ==
    /\ topo # <<>> /\ topo.pc = "error"
    /\ topo.build.error = NoStreet
    /\ topo.arteries = <<>>
    /\ NoRoute(topo.model, topo.topology[1], topo.gate)

\* a run of buildStreets that succeeded although a border gate has no
\* approach road
SkippedRoad ==
    /\ topo # <<>> /\ topo.pc = "streets"
    /\ Len(topo.build.streets) = Len(topo.model.gates)
    /\ \E k \in 1..Len(topo.model.gates) :
           /\ topo.model.gates[k] \in Range(topo.model.borderGates)
           /\ NoApproach(topo.model, topo.topology[1], k)


(***************************************************************************)
(* Model.optimizeJunctions (model.ts 155-196) on a town of three inner    *)
(* patches W, A and C around the point 1 and three countryside patches     *)
(* below them.  A patch is the sequence of its points; a Point object is   *)
(* its number, and its position is kept apart, in quarters of a unit, so   *)
(* that two patches holding the same number share the one object.          *)
(***************************************************************************)
JuncScale == 4
JuncThreshold == 8

JuncPatches ==
    <<  <<1, 2, 3, 5>>,      \* W, inner
        <<4, 2, 1, 6>>,      \* A, inner
        <<6, 1, 5, 8>>,      \* C, inner
        <<3, 2, 4, 9>>,      \* below W and A
        <<5, 3, 9, 10>>,     \* beside W
        <<9, 4, 6, 11>>  >>  \* beside A

JuncInner == {1, 2, 3}

\* the positions of the points: 1, 3 and 4 are either near the point 2 or
\* far from it
JuncPositions ==
    {[p \in 1..11 |->
         <<JuncScale * xy[p][1], JuncScale * xy[p][2]>>] :
     xy \in {<<p1, <<0, -20>>, p3, p4, <<24, 2>>, <<-24, 2>>, <<0, 0>>,
               <<0, 24>>, <<0, -50>>, <<50, -20>>, <<-50, -20>> >> :
             p1 \in {<<0, 0>>, <<0, -14>>},
             p3 \in {<<6, -24>>, <<20, -26>>},
             p4 \in {<<-4, -22>>, <<-20, -26>>}}}

\* the orders in which this.inner can hold the inner patches
JuncOrders ==
    {o \in [1..Cardinality(JuncInner) -> JuncInner] :
        \A i, j \in DOMAIN o : i # j => o[i] # o[j]}

\* Point.distance(v0, v1) < 8
Close(pos, v0, v1) ==
    SqDistance(pos[v0], pos[v1])
        < (JuncThreshold * JuncScale) * (JuncThreshold * JuncScale)

\* v0.addEq(v1); v0.scaleEq(0.5)
Midpoint(a, b) == <<(a[1] + b[1]) \div 2, (a[2] + b[2]) \div 2>>

\* w1.shape.vertices[w1.shape.indexOf(v1)] = v0
ReplaceFirst(shape, v1, v0) ==
    IF indexOf(shape, v1) # -1
    THEN [shape EXCEPT ![indexOf(shape, v1) + 1] = v0]
    ELSE shape

\* model.ts 186-195: every later occurrence of a vertex is spliced out
RECURSIVE RemoveDuplicates(_, _)
RemoveDuplicates(shape, i) ==
    IF i > Len(shape) THEN shape
    ELSE RemoveDuplicates(
             SelectSeq(SubSeq(shape, 1, i), LAMBDA v : TRUE)
                 \o SelectSeq(SubSeq(shape, i + 1, Len(shape)),
                              LAMBDA v : v # shape[i]),
             i + 1)

JuncInit ==
    \E pos \in JuncPositions, order \in JuncOrders :
        junc = [patches |-> JuncPatches, toOptimize |-> order, pos |-> pos,
                wards2clean |-> <<>>, w |-> 1, index |-> 0,
                merged |-> <<>>, pc |-> "merge"]

\* model.ts 162-183: one turn of the while loop over the vertices of the
\* patch w, with the step of the for loop when the patch is finished
MergeStep ==
    /\ junc # <<>> /\ junc.pc = "merge"
    /\ LET wi == junc.toOptimize[junc.w]
           shape == junc.patches[wi]
           v0 == shape[junc.index + 1]
           v1 == shape[((junc.index + 1) % Len(shape)) + 1]
           merge == v0 # v1 /\ Close(junc.pos, v0, v1)
           others == SelectSeq([k \in 1..Len(junc.patches) |-> k],
                               LAMBDA k : k # wi /\ v1 \in Range(junc.patches[k]))
           patches == IF merge
                      THEN [k \in 1..Len(junc.patches) |->
                               IF k = wi THEN RemoveFrom(shape, v1)
                               ELSE ReplaceFirst(junc.patches[k], v1, v0)]
                      ELSE junc.patches
           last == junc.index + 1 >= Len(patches[wi])
       IN junc' = [junc EXCEPT
              !.patches = patches,
              !.wards2clean = IF merge THEN @ \o others ELSE @,
              !.pos = IF merge
                      THEN [@ EXCEPT ![v0] = Midpoint(junc.pos[v0], junc.pos[v1])]
                      ELSE @,
              !.merged = IF merge THEN Append(@, <<v0, v1>>) ELSE @,
              !.index = IF last THEN 0 ELSE @ + 1,
              !.w = IF last THEN @ + 1 ELSE @,
              !.pc = IF last /\ junc.w = Len(junc.toOptimize) THEN "clean"
                     ELSE "merge"]
    /\ UNCHANGED otherThanJunc

\* model.ts 186-195: the loop that removes duplicate vertices
CleanWards ==
    /\ junc # <<>> /\ junc.pc = "clean"
    /\ junc' = [junc EXCEPT
           !.patches = [k \in 1..Len(junc.patches) |->
                           IF k \in Range(junc.wards2clean)
                           THEN RemoveDuplicates(junc.patches[k], 1)
                           ELSE junc.patches[k]],
           !.pc = "done"]
    /\ UNCHANGED otherThanJunc

InitJunc ==
    /\ JuncInit
    /\ GenIdle /\ GraphIdle /\ WallIdle /\ AlleysIdle
    /\ CutIdle /\ RndIdle /\ WardsIdle /\ TopoIdle
    /\ HelpersIdle

NextJunc == MergeStep \/ CleanWards

SpecJunc == InitJunc /\ [][NextJunc]_vars

\* the points that some merge removed
RemovedPoints == {junc.merged[i][2] : i \in 1..Len(junc.merged)}

NoDuplicates(shape) ==
    \A i, j \in 1..Len(shape) : i # j => shape[i] # shape[j]

\* C19: after optimizeJunctions no patch holds a point that a merge removed,
\* and no patch holds the same point twice, whatever the number and order of
\* the merges.
CE_C19 ==
    (junc # <<>> /\ junc.pc = "done") =>
        \A k \in 1..Len(junc.patches) :
            /\ Range(junc.patches[k]) \cap RemovedPoints = {}
            /\ NoDuplicates(junc.patches[k])

\* the points whose nodes are in a list of nodes of the topology
PointsOf(t, nodes) == {MapGet(t.node2pt, nodes[i]) : i \in 1..Len(nodes)}

\* C21: no vertex of the border is in Topology.inner or Topology.outer; a
\* street holds no point of Topology.outer; an approach road, which runs
\* from the gate back to its start point, holds no point of Topology.inner
\* except possibly that start point.
Thm_C21 ==
    (topo # <<>> /\ topo.pc \in {"built", "path", "gates", "error", "streets"}) =>
        LET m == topo.model
            t == topo.topology[1]
            b == topo.build
        IN  /\ Range(m.border) \cap (PointsOf(t, t.inner) \cup PointsOf(t, t.outer)) = {}
            /\ \A k \in 1..Len(b.streets) :
                   Range(b.streets[k]) \cap PointsOf(t, t.outer) = {}
            /\ \A k \in 1..Len(b.roads) :
                   \A i \in 1..(Len(b.roads[k]) - 1) :
                       b.roads[k][i] \notin PointsOf(t, t.inner)

Wit_C21 ==
    /\ topo # <<>> /\ topo.pc = "streets"
    /\ topo.topology[1].inner # <<>> /\ topo.topology[1].outer # <<>>
    /\ topo.model.wall # None
    /\ \E k \in 1..Len(topo.build.streets) :
           /\ Len(topo.build.streets[k]) = 3
           /\ topo.build.streets[k][2]
                  \in PointsOf(topo.topology[1], topo.topology[1].inner)
    /\ \E k \in 1..Len(topo.build.roads) : Len(topo.build.roads[k]) >= 3

\* the directed segments of a list of paths
SegmentsOf(paths) ==
    UNION {{<<paths[k][i], paths[k][i + 1]>> : i \in 1..(Len(paths[k]) - 1)} :
           k \in 1..Len(paths)}

\* the segments tidyUpRoads keeps: those not along the plaza
KeptSegments(m, streets, roads) ==
    {seg \in SegmentsOf(streets \o roads) :
        ~(m.plaza # None /\ seg[1] \in Range(m.plaza[1])
                         /\ seg[2] \in Range(m.plaza[1]))}

\* the places (artery, index) where a segment lies in the arteries
PlacesOf(arteries, seg) ==
    {<<j, i>> \in (1..Len(arteries)) \X (1..20) :
        i < Len(arteries[j]) /\ <<arteries[j][i], arteries[j][i + 1]>> = seg}

\* C22: after tidyUpRoads every directed segment of a street or road that is
\* not along the plaza lies at exactly one place of the arteries, and every
\* pair of neighbours of an artery is such a segment.
Thm_C22 ==
    (topo # <<>> /\ topo.pc = "streets") =>
        LET kept == KeptSegments(topo.model, topo.build.streets, topo.build.roads)
        IN  /\ \A seg \in kept : Cardinality(PlacesOf(topo.arteries, seg)) = 1
            /\ SegmentsOf(topo.arteries) = kept
            /\ \A j \in 1..Len(topo.arteries) : Len(topo.arteries[j]) >= 2

\* two roads of a town with a plaza share a segment, and the segments end
\* up in several arteries
Wit_C22 ==
    /\ topo # <<>> /\ topo.pc = "streets"
    /\ Len(topo.arteries) >= 2
    /\ \E j, k \in 1..Len(topo.build.roads) :
           j # k /\ SegmentsOf(<<topo.build.roads[j]>>)
                       \cap SegmentsOf(<<topo.build.roads[k]>>) # {}
    /\ topo.model.plaza # None

\* C23: after tidyUpRoads no artery ends at the point where another artery
\* begins.
CE_C23 ==
    (topo # <<>> /\ topo.pc = "streets") =>
        \A i, j \in 1..Len(topo.arteries) :
            i # j => topo.arteries[i][Len(topo.arteries[i])] # topo.arteries[j][1]

MinPatches == 3       \* fewest patches of a settlement
MaxPatches == 6       \* most patches tried
SeedsPerPatch == 8
Rounds == 3
Central == 3
FrameLength == 1000   \* the frame corners lie beyond every seed
HullWindow == 4       \* the outermost seeds, whose regions may touch the frame

\* the length of the i-th spiral point: r = 10 + i * (2 + rng.float()),
\* with every draw 0 (jitter 0) or 1/2 (jitter 1)
SeedLength(i, jitter) ==
    IF i = 0 THEN 0 ELSE 10 + i * 2 + (i * jitter) \div 2

SpiralPoints(nPatches, jitter) ==
    [k \in 1..(nPatches * SeedsPerPatch) |->
        [seed |-> k - 1, length |-> SeedLength(k - 1, jitter), relaxed |-> 0]]

\* Voronoi constructor: frame and points both start as the four corners
FramePoint(c) == [seed |-> -c, length |-> FrameLength, relaxed |-> 0]
Frame == <<FramePoint(1), FramePoint(2), FramePoint(3), FramePoint(4)>>

IsFrame(p) == p.seed < 0

\* Voronoi.build: every vertex is added after the corners
VoronoiBuild(vertices) == Frame \o vertices

\* Voronoi.partitioning: the regions, by seed, whose triangles are all real
Partitioning(points, hull) ==
    SelectSeq(points, LAMBDA p : ~IsFrame(p) /\ p.seed \notin hull)

\* Region.center of the region of seed p, shift away from the seed
Center(p, shift) ==
    [p EXCEPT !.length = IF @ + shift < 0 THEN 0 ELSE @ + shift,
              !.relaxed = @ + 1]

\* the toRelax list of one round
ToRelax(points, nPatches) ==
    LET few == IF Len(points) < Central THEN Len(points) ELSE Central
    IN SubSeq(points, 1, few)
       \o (IF nPatches < Len(points) THEN <<points[nPatches + 1]>> ELSE <<>>)

\* the loop over the regions in Voronoi.relax: the seed of every region on
\* the toRelax list is taken out and the center of the region is pushed,
\* in the order of the regions
RelaxRegions(points, regions, toRelax, shift) ==
    LET hit == SelectSeq(regions, LAMBDA r : r \in Range(toRelax))
    IN SelectSeq(points, LAMBDA p : p \notin Range(hit))
       \o [i \in 1..Len(hit) |-> Center(hit[i], shift)]

\* Voronoi.relax(voronoi, toRelax)
VoronoiRelax(points, hull, toRelax, shift) ==
    VoronoiBuild(
        RelaxRegions(SelectSeq(points, LAMBDA p : ~IsFrame(p)),
                     Partitioning(points, hull), toRelax, shift))

\* the seeds one round replaces by their region centers
MovedSeeds(points, hull, toRelax) ==
    {p.seed : p \in Range(Partitioning(points, hull)) \cap Range(toRelax)}

\* Array.sort by length, a stable sort: a point goes behind the shorter
\* points and behind the points of its length that came before it
SortByLength(points) ==
    LET n == Len(points)
        rank(i) == Cardinality({j \in 1..n :
                      \/ points[j].length < points[i].length
                      \/ points[j].length = points[i].length /\ j < i}) + 1
    IN [k \in 1..n |-> points[CHOOSE i \in 1..n : rank(i) = k]]

RelaxInit ==
    \E nPatches \in MinPatches..MaxPatches, jitter \in {0, 1} :
    \E hull \in SUBSET ((nPatches * SeedsPerPatch - HullWindow)
                          ..(nPatches * SeedsPerPatch - 1)) :
        /\ Cardinality(hull) >= 3
        /\ relax = [nPatches |-> nPatches, hull |-> hull,
                    points |-> VoronoiBuild(SpiralPoints(nPatches, jitter)),
                    rounds |-> <<>>, pc |-> "relax"]

\* one pass of the loop "for (let i = 0; i < 3; i++)"
RelaxRound ==
    /\ relax # <<>> /\ relax.pc = "relax" /\ Len(relax.rounds) < Rounds
    /\ \E shift \in {-1, 0, 1} :
         LET toRelax == ToRelax(relax.points, relax.nPatches)
         IN relax' = [relax EXCEPT
                !.points = VoronoiRelax(relax.points, relax.hull, toRelax, shift),
                !.rounds = Append(@,
                    [before |-> relax.points,
                     moved |-> MovedSeeds(relax.points, relax.hull, toRelax)])]
    /\ UNCHANGED otherThanRelax

\* voronoi.points.sort(...) after the last round
SortPoints ==
    /\ relax # <<>> /\ relax.pc = "relax" /\ Len(relax.rounds) = Rounds
    /\ relax' = [relax EXCEPT !.points = SortByLength(@), !.pc = "sorted"]
    /\ UNCHANGED otherThanRelax

InitRelax ==
    /\ GenIdle /\ GraphIdle /\ WallIdle /\ AlleysIdle /\ CutIdle /\ RndIdle
    /\ WardsIdle /\ TopoIdle /\ JuncIdle /\ CircIdle /\ FortIdle
    /\ RelaxInit

NextRelax == RelaxRound \/ SortPoints

SpecRelax == InitRelax /\ [][NextRelax]_vars

\* the seeds of the points nearest the origin: those with fewer than
\* Central points strictly nearer
NearestSeeds(points) ==
    LET seeds == {p \in Range(points) : ~IsFrame(p)}
    IN {p.seed : p \in {q \in seeds :
            Cardinality({s \in seeds : s.length < q.length}) < Central}}

\* C25: in each of the three relaxation rounds the seeds moved to their
\* region centers are the three seeds nearest the origin plus the seed at
\* index nPatches, and no other seed is moved.
CE_C25 ==
    relax # <<>> =>
        \A k \in 1..Len(relax.rounds) :
            LET before == relax.rounds[k].before
            IN relax.rounds[k].moved
                 = NearestSeeds(before) \cup {before[relax.nPatches + 1].seed}

\* what the rounds do move: the frame corners head voronoi.points, so the
\* first three entries of toRelax have no region and round k moves the one
\* seed at index nPatches - 4 + (k - 1) of the spiral, or none when
\* voronoi.points[nPatches] is itself a corner
MovedByRound ==
    relax # <<>> =>
        \A k \in 1..Len(relax.rounds) :
            relax.rounds[k].moved
              = (IF relax.nPatches < 4 THEN {}
                 ELSE {relax.nPatches - 4 + (k - 1)})

(***************************************************************************)
(* Model.findCircumference (src/src/generator/model.ts 432-463)            *)
(*                                                                         *)
(* The patches are squares of a grid of GridRows by GridCols cells, all    *)
(* with the same orientation; a call is given a list of distinct cells.    *)
(***************************************************************************)
GridRows == 2
GridCols == 3
MaxMembers == 3       \* most patches handed to one call

GridPoint(r, c) == r * (GridCols + 1) + c + 1

Cell(r, c) ==
    <<GridPoint(r, c), GridPoint(r, c + 1),
      GridPoint(r + 1, c + 1), GridPoint(r + 1, c)>>

Cells == {Cell(r, c) : r \in 0..(GridRows - 1), c \in 0..(GridCols - 1)}

\* Array.indexOf, 0 when absent
IndexOf(a, x) ==
    IF \E i \in 1..Len(a) : a[i] = x
    THEN CHOOSE i \in 1..Len(a) : a[i] = x /\ \A j \in 1..(i - 1) : a[j] # x
    ELSE 0

\* Polygon.findEdge(a, b), 0 when a -> b is no edge of the shape
FindEdge(shape, a, b) ==
    LET index == IndexOf(shape, a)
    IN IF index # 0 /\ shape[(index % Len(shape)) + 1] = b THEN index ELSE 0

\* the test "no member patch has the edge b -> a"
OuterEdge(patches, a, b) ==
    \A k \in 1..Len(patches) : FindEdge(patches[k], b, a) = 0

\* the edges pushed to A and B over the edges of one shape, from the i-th
RECURSIVE ShapeEdges(_, _, _)
ShapeEdges(patches, shape, i) ==
    IF i > Len(shape) THEN <<>>
    ELSE LET a == shape[i]
             b == shape[(i % Len(shape)) + 1]
         IN (IF OuterEdge(patches, a, b) THEN <<<<a, b>>>> ELSE <<>>)
            \o ShapeEdges(patches, shape, i + 1)

\* A and B as one list of pairs, over the patches from the k-th
RECURSIVE CollectEdges(_, _)
CollectEdges(patches, k) ==
    IF k > Len(patches) THEN <<>>
    ELSE ShapeEdges(patches, patches[k], 1) \o CollectEdges(patches, k + 1)

\* the do-while loop: index is the position in A and B; the walk goes on
\* for ever once it comes back to a position other than the first, or
\* once B[index] is not in A
RECURSIVE CircWalk(_, _, _, _)
CircWalk(AB, index, result, seen) ==
    LET pushed == IF index \in 1..Len(AB)
                  THEN Append(result, AB[index][1]) ELSE result
        nextIndex == IF index \in 1..Len(AB)
                THEN IndexOf([i \in 1..Len(AB) |-> AB[i][1]], AB[index][2])
                ELSE 0
    IN IF index \in 1..Len(AB) /\ nextIndex = 1
       THEN [returns |-> TRUE, result |-> pushed]
       ELSE IF nextIndex = 0 \/ nextIndex \in seen
       THEN [returns |-> FALSE, result |-> pushed]
       ELSE CircWalk(AB, nextIndex, pushed, seen \cup {nextIndex})

\* Model.findCircumference(patches)
findCircumference(patches) ==
    IF Len(patches) = 0 THEN [returns |-> TRUE, result |-> <<>>]
    ELSE IF Len(patches) = 1 THEN [returns |-> TRUE, result |-> patches[1]]
    ELSE CircWalk(CollectEdges(patches, 1), 1, <<>>, {1})

\* the lists of distinct cells of a given length
RECURSIVE CellLists(_)
CellLists(n) ==
    IF n = 0 THEN {<<>>}
    ELSE {Append(l, c) : l \in CellLists(n - 1), c \in Cells}

CircInit ==
    \E n \in 1..MaxMembers : \E patches \in CellLists(n) :
        /\ \A i, j \in 1..n : patches[i] = patches[j] => i = j
        /\ circ = [patches |-> patches, pc |-> "call", out |-> None]

FindCircumference ==
    /\ circ # <<>> /\ circ.pc = "call"
    /\ circ' = [circ EXCEPT !.pc = "called",
                            !.out = Some(findCircumference(circ.patches))]
    /\ UNCHANGED otherThanCirc

InitCirc ==
    /\ GenIdle /\ GraphIdle /\ WallIdle /\ AlleysIdle /\ CutIdle /\ RndIdle
    /\ WardsIdle /\ TopoIdle /\ JuncIdle /\ FortIdle /\ RelaxIdle
    /\ CircInit

NextCirc == FindCircumference

SpecCirc == InitCirc /\ [][NextCirc]_vars

\* the directed edges of member patches that no member patch has reversed
OuterEdges(patches) ==
    {e \in UNION {{<<p[i], p[(i % Len(p)) + 1]>> : i \in 1..Len(p)} :
                     p \in Range(patches)} :
        \A q \in Range(patches) :
            \A i \in 1..Len(q) : <<q[i], q[(i % Len(q)) + 1]>> # <<e[2], e[1]>>}

\* the edges of a closed polygon
PolygonEdges(shape) ==
    {<<shape[i], shape[(i % Len(shape)) + 1]>> : i \in 1..Len(shape)}

\* the result is a closed polygon of exactly the edges in E, each once
ExactlyOnce(out, E) ==
    /\ out.returns
    /\ PolygonEdges(out.result) = E
    /\ Len(out.result) = Cardinality(E)

\* the edges reached from edge e by going on, k times, to the outer edges
\* that start where the last one ended
RECURSIVE Following(_, _, _)
Following(E, S, k) ==
    IF k = 0 THEN S
    ELSE Following(E, S \cup {e \in E : \E d \in S : d[2] = e[1]}, k - 1)

\* the outer edges form one closed loop that passes each of its vertices
\* once
SingleLoop(patches) ==
    LET E == OuterEdges(patches)
    IN /\ E # {}
       /\ \A e, d \in E : e[1] = d[1] => e = d
       /\ \A e \in E : Following(E, {e}, Cardinality(E)) = E

\* C24: for every set of two or more patches findCircumference terminates
\* and returns a closed polygon whose directed edges are exactly the edges
\* of member patches that no member patch has in reverse orientation, each
\* exactly once.
CE_C24 ==
    (circ # <<>> /\ circ.pc = "called" /\ Len(circ.patches) >= 2) =>
        ExactlyOnce(circ.out[1], OuterEdges(circ.patches))

\* what does hold: for patches whose outer edges form one closed loop that
\* passes each of its vertices once, the call terminates and returns a
\* closed polygon of exactly those outer edges, each once
SingleLoopOutline ==
    (circ # <<>> /\ circ.pc = "called" /\ Len(circ.patches) >= 2
        /\ SingleLoop(circ.patches)) =>
        ExactlyOnce(circ.out[1], OuterEdges(circ.patches))

\* the walk never comes back to its first edge
CircDiverges ==
    circ # <<>> /\ circ.pc = "called" /\ ~circ.out[1].returns

\* the walk comes back having left outer edges out
CircMisses ==
    /\ circ # <<>> /\ circ.pc = "called" /\ circ.out[1].returns
    /\ Len(circ.patches) >= 2
    /\ PolygonEdges(circ.out[1].result) # OuterEdges(circ.patches)

(***************************************************************************)
(* Model.buildWalls (src/src/generator/model.ts 199-226) with CurtainWall  *)
(* (src/unnamed/part_009) and Castle (src/src/wards/castle.ts)             *)
(*                                                                         *)
(* A patch is known by its shape.  The towns are those of TownLayouts in   *)
(* which every vertex of an inner patch is shared by three patches or      *)
(* more, as the vertices of Voronoi regions are, and a town with the       *)
(* border 23 24 25 26 around the point 22: the countryside patches at the  *)
(* border points 23 and 25 are the only ones there, the candidate citadel  *)
(* touches the town at the point 24 only, and one patch lies far off.  A   *)
(* last town is the first of TownLayouts with one countryside patch along  *)
(* both border edges of the point 1 and the same patch far off.  Points    *)
(* keep their positions: the smoothing of wall and gates is left out.      *)
(***************************************************************************)
Bastion ==
    [inner |-> << <<22, 23, 24>>, <<22, 24, 25>>, <<22, 25, 26>>, <<22, 26, 23>> >>,
     citadel |-> <<24, 28, 29>>,
     outer |-> << <<24, 23, 26, 27, 28>>, <<26, 25, 24, 29, 30>>,
                  <<26, 30, 27>>, <<31, 32, 33>> >>,
     citadels |-> BOOLEAN]

Keep ==
    [inner |-> << <<1, 2, 7>>, <<2, 3, 7>>, <<3, 9, 7>>, <<9, 4, 7>>, <<4, 1, 7>> >>,
     citadel |-> CitadelShape,
     outer |-> << <<2, 1, 4, 5, 6>>, <<3, 2, 6, 8>>, <<31, 32, 33>> >>,
     citadels |-> BOOLEAN]

SharedBy(l, v) ==
    Cardinality({i \in 1..Len(l.inner) : v \in Range(l.inner[i])})
    + Cardinality({i \in 1..Len(l.outer) : v \in Range(l.outer[i])})
    + (IF v \in Range(l.citadel) THEN 1 ELSE 0)

WalledTowns ==
    {[inner |-> l.inner, citadel |-> l.citadel, outer |-> l.outer,
      citadels |-> l.citadels] :
        l \in {t \in TownLayouts :
                 \A i \in 1..Len(t.inner) :
                    \A v \in Range(t.inner[i]) : SharedBy(t, v) >= 3}}
    \cup {Bastion, Keep}

\* Model.patchByVertex
patchByVertex(patches, v) ==
    SelectSeq(patches, LAMBDA p : v \in Range(p.shape))

\* Polygon.next and Polygon.prev
PolygonNext(shape, a) == shape[(IndexOf(shape, a) % Len(shape)) + 1]
PolygonPrev(shape, a) ==
    shape[((IndexOf(shape, a) + Len(shape) - 2) % Len(shape)) + 1]

\* Polygon.spliti with the far vertex left out of the first half
splitiOpen(shape, i1, i2) ==
    LET lo == IF i1 > i2 THEN i2 ELSE i1
        hi == IF i1 > i2 THEN i1 ELSE i2
    IN <<SubSeq(shape, lo, hi - 1),
         SubSeq(shape, hi, Len(shape)) \o SubSeq(shape, 1, lo)>>
\* Polygon.spliti, positions counted from 1
spliti(shape, i1, i2) ==
    LET lo == IF i1 > i2 THEN i2 ELSE i1
        hi == IF i1 > i2 THEN i1 ELSE i2
    IN <<SubSeq(shape, lo, hi),
         SubSeq(shape, hi, Len(shape)) \o SubSeq(shape, 1, lo)>>

\* Polygon.split
split(shape, p1, p2) == spliti(shape, IndexOf(shape, p1), IndexOf(shape, p2))

\* the measure of a vertex of the outer patch: minus infinity on the wall
\* and on reserved vertices, else dir.dot(out) / dir.length, kept as the
\* dot product and the squared length
FarMeasure(w, gate, v) ==
    IF v \in Range(w.shape) \/ v \in Range(w.reserved)
    THEN [inf |-> TRUE, dot |-> 0, len2 |-> 1]
    ELSE LET wallDir == PointSubtract(TopoXY[PolygonNext(w.shape, gate)],
                                      TopoXY[PolygonPrev(w.shape, gate)])
             out == <<wallDir[2], -wallDir[1]>>
             dir == PointSubtract(TopoXY[v], TopoXY[gate])
         IN [inf |-> FALSE, dot |-> dir[1] * out[1] + dir[2] * out[2],
             len2 |-> dir[1] * dir[1] + dir[2] * dir[2]]

\* a / c > d / b for a, d >= 0 and b, c > 0, without the products
RECURSIVE FractionGreater(_, _, _, _)
FractionGreater(a, c, d, b) ==
    IF a \div c # d \div b THEN a \div c > d \div b
    ELSE IF a % c = 0 THEN FALSE
    ELSE IF d % b = 0 THEN TRUE
    ELSE FractionGreater(b, d % b, c, a % c)

\* measure a > measure b: dot(a) / length(a) > dot(b) / length(b)
Farther(a, b) ==
    LET sq(m) == m.dot * m.dot
    IN IF a.inf THEN FALSE
       ELSE IF b.inf THEN TRUE
       ELSE IF a.dot >= 0 /\ b.dot < 0 THEN TRUE
       ELSE IF a.dot < 0 /\ b.dot >= 0 THEN FALSE
       ELSE IF a.dot >= 0
       THEN FractionGreater(sq(a), a.len2, sq(b), b.len2)
       ELSE FractionGreater(sq(b), b.len2, sq(a), a.len2)

\* maxBy over the vertices of the outer patch, from the i-th on
RECURSIVE maxByFrom(_, _, _, _, _)
maxByFrom(w, gate, vs, i, result) ==
    IF i > Len(vs) THEN result
    ELSE IF Farther(FarMeasure(w, gate, vs[i]), FarMeasure(w, gate, result))
         THEN maxByFrom(w, gate, vs, i + 1, vs[i])
         ELSE maxByFrom(w, gate, vs, i + 1, result)

Farthest(w, gate, outer) == maxByFrom(w, gate, outer, 2, outer[1])

\* "Replace outer in model.patches"
ReplaceOuter(patches, outer, halves) ==
    LET idx == IndexOf([i \in 1..Len(patches) |-> patches[i].shape], outer)
        newPatch(half) == [shape |-> half, withinCity |-> FALSE]
    IN IF idx = 0 THEN patches
       ELSE SubSeq(patches, 1, idx - 1)
            \o <<newPatch(halves[1]), newPatch(halves[2])>>
            \o SubSeq(patches, idx + 1, Len(patches))

\* the entrances of a wall over any vertex, reserved or not
WallEntrancesAny(w) ==
    IF Len(w.patches) > 1
    THEN SelectSeq(w.shape, LAMBDA v :
            Cardinality({i \in 1..Len(w.patches) : v \in Range(w.patches[i])}) > 1)
    ELSE w.shape
\* buildGates 45-53: the entrances of a wall
WallEntrances(w) ==
    IF Len(w.patches) > 1
    THEN SelectSeq(w.shape, LAMBDA v :
            /\ v \notin Range(w.reserved)
            /\ Cardinality({i \in 1..Len(w.patches) :
                              v \in Range(w.patches[i])}) > 1)
    ELSE SelectSeq(w.shape, LAMBDA v : v \notin Range(w.reserved))

\* the CurtainWall constructor up to the call of buildGates
CurtainWallOf(real, patches, reserved) ==
    [real |-> real, patches |-> patches, reserved |-> reserved,
     shape |-> IF Len(patches) = 1 THEN patches[1]
               ELSE findCircumference(patches).result,
     segments |-> [i \in 1..Len(IF Len(patches) = 1 THEN patches[1]
                                ELSE findCircumference(patches).result)
                     |-> TRUE],
     gates |-> <<>>, towers |-> <<>>]

\* one pass of the do-while loop of buildGates with the index drawn, on
\* the wall w of the run f: the gate is pushed, on a real wall the one
\* outer patch at the gate is split when it has more than three vertices,
\* and the neighbouring entrances are removed
GatePass(f, w, which, index) ==
    LET gate == f.entrances[index + 1]
        outerWards == SelectSeq(patchByVertex(f.patches, gate),
                                LAMBDA p : p.shape \notin Range(w.patches))
        splits == w.real /\ Len(outerWards) = 1 /\ Len(outerWards[1].shape) > 3
        outer == outerWards[1].shape
        farthest == Farthest(w, gate, outer)
        halves == split(outer, gate, farthest)
    IN [f EXCEPT
          ![which] = Some([w EXCEPT !.gates = Append(@, gate)]),
          !.patches = IF splits THEN ReplaceOuter(@, outer, halves) ELSE @,
          !.splits = IF splits
                     THEN Append(@, [wall |-> which, gate |-> gate,
                                     outer |-> outer, far |-> farthest,
                                     at |-> IndexOf([i \in 1..Len(f.patches) |->
                                                       f.patches[i].shape], outer),
                                     before |-> f.patches,
                                     after |-> ReplaceOuter(f.patches, outer, halves)])
                     ELSE @,
          !.entrances = RemoveNeighbours(@, index)]

\* buildTowers with a tower at every vertex
buildTowersAtGates(w) ==
    [w EXCEPT !.towers =
        IF w.real
        THEN SelectSeq(w.shape, LAMBDA t :
                LET i == IndexOf(w.shape, t) - 1
                    len == Len(w.shape)
                IN w.segments[((i + len - 1) % len) + 1] \/ w.segments[i + 1])
        ELSE <<>>]
\* CurtainWall.buildTowers
buildTowers(w) ==
    [w EXCEPT !.towers =
        IF w.real
        THEN SelectSeq(w.shape, LAMBDA t :
                LET i == IndexOf(w.shape, t) - 1
                    len == Len(w.shape)
                IN /\ t \notin Range(w.gates)
                   /\ (w.segments[((i + len - 1) % len) + 1] \/ w.segments[i + 1]))
        ELSE <<>>]

\* CurtainWall.getRadius and Polygon.distance, both squared
RadiusSq(w) ==
    LET lens == {SqDistance(TopoXY[v], <<0, 0>>) : v \in Range(w.shape)}
    IN CHOOSE x \in lens : \A y \in lens : y <= x

ShapeDistanceSq(shape, c) ==
    LET ds == {SqDistance(TopoXY[v], TopoXY[c]) : v \in Range(shape)}
    IN CHOOSE x \in ds : \A y \in ds : x <= y

\* "p.shape.distance(this.center) < radius * 3"
PruneByRadius(patches, center, w) ==
    SelectSeq(patches, LAMBDA p :
        ShapeDistanceSq(p.shape, center) < 9 * RadiusSq(w))

\* the model as buildPatches and optimizeJunctions leave it
FortInit ==
    \E l \in WalledTowns :
    \E citadelNeeded \in l.citadels, wallsNeeded \in BOOLEAN,
       plazaNeeded \in BOOLEAN :
        fort = [patches |-> [i \in 1..Len(l.inner) |-> TopoPatch(l.inner[i], TRUE)]
                            \o <<TopoPatch(l.citadel, citadelNeeded)>>
                            \o [i \in 1..Len(l.outer) |-> TopoPatch(l.outer[i], FALSE)],
                inner |-> l.inner,
                plaza |-> IF plazaNeeded THEN Some(l.inner[1]) ELSE None,
                citadel |-> IF citadelNeeded THEN Some(l.citadel) ELSE None,
                center |-> Nearest(l.inner[1], <<0, 0>>),
                wallsNeeded |-> wallsNeeded,
                border |-> None, wall |-> None, castle |-> None,
                gates |-> <<>>, entrances |-> <<>>, splits |-> <<>>,
                pc |-> "buildWalls"]

\* after the last pass of the border wall: wall and towers, the pruning by
\* radius, model.gates, and the Castle constructor up to its gate loop
AfterBorder(f) ==
    LET border == IF f.wallsNeeded THEN buildTowers(f.border[1]) ELSE f.border[1]
        f1 == [f EXCEPT !.border = Some(border),
                        !.wall = IF f.wallsNeeded THEN Some(border) ELSE None,
                        !.patches = PruneByRadius(@, f.center, border),
                        !.gates = border.gates]
        reserved == SelectSeq(f.citadel[1], LAMBDA v :
                        \E i \in 1..Len(f1.patches) :
                            /\ v \in Range(f1.patches[i].shape)
                            /\ ~f1.patches[i].withinCity)
        castle == CurtainWallOf(TRUE, <<f.citadel[1]>>, reserved)
    IN IF f.citadel = None THEN [f1 EXCEPT !.pc = "built"]
       ELSE IF WallEntrances(castle) = <<>>
       THEN [f1 EXCEPT !.castle = Some(castle), !.pc = "Bad walled area shape!"]
       ELSE [f1 EXCEPT !.castle = Some(castle),
                       !.entrances = WallEntrances(castle),
                       !.pc = "castleGates"]

\* buildWalls up to the gate loop of the border wall
BorderWall ==
    /\ fort # <<>> /\ fort.pc = "buildWalls"
    /\ LET reserved == IF fort.citadel # None THEN fort.citadel[1] ELSE <<>>
           border == CurtainWallOf(fort.wallsNeeded, fort.inner, reserved)
       IN fort' = IF WallEntrances(border) = <<>>
                  THEN [fort EXCEPT !.border = Some(border),
                                    !.pc = "Bad walled area shape!"]
                  ELSE [fort EXCEPT !.border = Some(border),
                                    !.entrances = WallEntrances(border),
                                    !.pc = "borderGates"]
    /\ UNCHANGED otherThanFort

\* one pass of the gate loop of the border wall; the last pass goes on to
\* the end of the CurtainWall constructor and through buildWalls as far as
\* the gate loop of the castle wall
BorderGate ==
    /\ fort # <<>> /\ fort.pc = "borderGates"
    /\ \E index \in 0..(Len(fort.entrances) - 1) :
         LET f == GatePass(fort, fort.border[1], "border", index)
         IN fort' = IF Len(f.entrances) >= 3 THEN f ELSE AfterBorder(f)
    /\ UNCHANGED otherThanFort

\* one pass of the gate loop of the castle wall; the last pass goes on to
\* the end of buildWalls: the towers of the castle wall, the test of the
\* citadel's compactness, which no triangle passes, and model.gates
CastleGate ==
    /\ fort # <<>> /\ fort.pc = "castleGates"
    /\ \E index \in 0..(Len(fort.entrances) - 1),
          compact \in BOOLEAN :
         LET f == GatePass(fort, fort.castle[1], "castle", index)
             castle == buildTowers(f.castle[1])
         IN /\ Len(fort.citadel[1]) = 3 => ~compact
            /\ fort' = IF Len(f.entrances) >= 3 THEN f
                       ELSE IF ~compact
                       THEN [f EXCEPT !.castle = Some(castle),
                                      !.pc = "Bad citadel shape!"]
                       ELSE [f EXCEPT !.castle = Some(castle),
                                      !.gates = @ \o castle.gates,
                                      !.pc = "built"]
    /\ UNCHANGED otherThanFort

InitFort ==
    /\ GenIdle /\ GraphIdle /\ WallIdle /\ AlleysIdle /\ CutIdle /\ RndIdle
    /\ WardsIdle /\ TopoIdle /\ JuncIdle /\ CircIdle /\ RelaxIdle
    /\ FortInit

NextFort == BorderWall \/ BorderGate \/ CastleGate

SpecFort == InitFort /\ [][NextFort]_vars

ShapesOf(patches) == {patches[i].shape : i \in 1..Len(patches)}

TowersOf(w) ==
    /\ w.towers = SelectSeq(w.shape, LAMBDA v :
          /\ v \notin Range(w.gates)
          /\ \E i \in 1..Len(w.shape) :
                /\ w.shape[i] = v
                /\ (w.segments[i]
                    \/ w.segments[IF i = 1 THEN Len(w.shape) ELSE i - 1]))
    /\ Range(w.towers) \cap Range(w.gates) = {}

Thm_C27 ==
    fort # <<>> =>
      /\ fort.wall # None => fort.wall[1].real /\ TowersOf(fort.wall[1])
      /\ (fort.castle # None /\ fort.pc \in {"built", "Bad citadel shape!"}) =>
            TowersOf(fort.castle[1])
      /\ (fort.border # None /\ ~fort.border[1].real) =>
            fort.border[1].towers = <<>>

Wit_C27 ==
    /\ fort # <<>> /\ fort.pc = "built"
    /\ fort.wall # None /\ fort.castle # None
    /\ Len(fort.wall[1].gates) = 1 /\ Len(fort.wall[1].towers) = 4
    /\ Len(fort.castle[1].gates) = 1 /\ Len(fort.castle[1].towers) = 3

====
